---- MODULE Spec2Model ----
(***************************************************************************)
(* A model of the Orpheus audio core: the layer runtime (LayerInfo), the   *)
(* mixer (AudioMixer), the environment fade windows (Environment) and the  *)
(* reconciler (compare_workspaces).                                        *)
(*                                                                         *)
(* Reading conventions.  layer_info.py and mixer.py call the accessors     *)
(* get_effective_weight(), get_effective_chance(),                         *)
(* get_effective_cooldown_cycles(), get_effective_max_weight() and read    *)
(* layer._environment; audio.py defines the same resolutions as the        *)
(* properties effective_weight, _effective_chance,                         *)
(* effective_cooldown_cycles, effective_max_weight and the field           *)
(* environment.  The model resolves each accessor to the audio.py member   *)
(* of the same meaning.                                                    *)
(*                                                                         *)
(* Sample counts, milliseconds and weights are integers.  A chance or a    *)
(* random roll x is the integer x * RollDen.  Wall-clock time and the      *)
(* fade durations are integers, in milliseconds.                           *)
(***************************************************************************)
EXTENDS Integers, Sequences, FiniteSets, TLC

VARIABLES
    app_state,          \* AudioMixer._app_state
    cached_layers,      \* AudioMixer._cached_layers : cache key -> LayerInfo
    env_states,         \* AudioMixer._env_states : env id -> play state
    is_running,         \* AudioMixer._is_running
    now,                \* time.time(), in milliseconds
    current_instance,   \* AppState._current_instance, the AppState built last
    config_file,        \* the workspace saved in CONFIG_FILE
    last_compare,       \* the last call of compare_workspaces (observation)
    frame,              \* what the last loop iteration did (observation)
    lock,               \* AudioMixer._lock : id of the holder, or Free
    process_thread,     \* AudioMixer._process_thread : thread id, or NoThread
    audio_pc,           \* audio thread id -> its position in _process_audio
    ctl,                \* control-plane thread id -> its position and locals
    next_frame_time,    \* next_frame_time of _process_audio, in milliseconds
    buffer,             \* len(PCMStreamSource.buffer), in bytes
    effective,          \* the effective values computed last (observation)
    workspace,          \* application.workspace, set by create_app
    response,           \* the answer to the last GET /workspace (observation)
    request             \* the body of the last POST /workspace with presets
                        \* (observation)

vars == <<app_state, cached_layers, env_states, is_running, now,
          current_instance, config_file, last_compare, frame, lock, process_thread,
          audio_pc, ctl, next_frame_time, buffer, effective,
                   workspace, response, request>>

----------------------------------------------------------------------------
(* Program constants and model bounds *)

SAMPLE_RATE == 48000
CHUNK_MS == 20
TARGET_BUFFER_MS == 100
DEFAULT_LOOP_MS == 8000
DEFAULT_CROSSFADE_MS == 4000
CHANNELS == 2
\* np.int16
BYTES_PER_SAMPLE == 2
\* PCMStreamSource
FRAME_LENGTH == 3840
MAX_BUFFER_FRAMES == 10

chunk_samples == (SAMPLE_RATE * CHUNK_MS) \div 1000

target_buffer_chunks == TARGET_BUFFER_MS \div CHUNK_MS

\* chances and rolls are multiples of 1/RollDen
RollDen == 4
\* loop lengths offered to a layer: CHUNK_MS * k / 2 for k in 2..MaxLoopHalfChunks
MaxLoopHalfChunks == 3
MaxCooldown == 1
MaxLayerWeight == 1
MaxEnvWeight == 2
\* loop boundaries a runtime may pass before the model stops mixing
MaxCycles == 4

\* the clock of the fade model advances by TickMs, MaxTicks times; a crossfade
\* lasts 0..MaxCrossfadeTicks ticks
MaxTicks == 1
MaxCrossfadeTicks == 1

\* the threads _process_audio is ever started on in the threads model
MaxThreads == 2

\* iterations a thread of the lifecycle model makes before the model stops it
MaxFrames == 3
MaxStopCycles == 1
MaxOverride == 1
BaseValue == 2
FadeInMs == 40
UnitVolume == 100

None == [none |-> TRUE]
NoValue == 0 - 1

Min(a, b) == IF a < b THEN a ELSE b

\* random.random() is in [0.0, 1.0): 0.0 and (RollDen-1)/RollDen
Rolls == {0, RollDen - 1}

----------------------------------------------------------------------------
(* Data model: audio.py *)

\* the first of a set of indices, as `next(...)` over a list finds it
First(hits) == CHOOSE i \in hits : \A j \in hits : i <= j

PresetHits(env) ==
    {i \in 1..Len(env.presets) : env.presets[i].id = env.active_preset_id}

\* Environment.get_active_preset
GetActivePreset(env) ==
    IF PresetHits(env) = {} THEN None ELSE env.presets[First(PresetHits(env))]

PresetLayerHits(preset, layer) ==
    {i \in 1..Len(preset.layers) : preset.layers[i].id = layer.id}

\* the override of the layer in the given preset, if any
PresetLayerOf(preset, layer) ==
    IF preset = None THEN None
    ELSE IF PresetLayerHits(preset, layer) = {} THEN None
    ELSE preset.layers[First(PresetLayerHits(preset, layer))]

\* Layer.get_active_preset_layer
GetActivePresetLayer(env, layer) == PresetLayerOf(GetActivePreset(env), layer)

\* the value of a field: the preset layer's if it has one, else the layer's
WeightOver(pl, layer) ==
    IF pl # None /\ pl.weight # NoValue THEN pl.weight ELSE layer.weight

ChanceOverTruthy(pl, layer) ==
    IF pl # None /\ pl.chance # NoValue /\ pl.chance # 0 THEN pl.chance
    ELSE layer.chance

ChanceOver(pl, layer) ==
    IF pl # None /\ pl.chance # NoValue THEN pl.chance ELSE layer.chance

CooldownOver(pl, layer) ==
    IF pl # None /\ pl.cooldown_cycles # NoValue THEN pl.cooldown_cycles
    ELSE layer.cooldown_cycles

MaxWeightOver(preset, env) ==
    IF preset # None /\ preset.max_weight # NoValue THEN preset.max_weight
    ELSE env.max_weight

\* Layer.effective_weight
EffectiveWeight(env, layer) == WeightOver(GetActivePresetLayer(env, layer), layer)

\* Layer._effective_chance
EffectiveChance(env, layer) == ChanceOver(GetActivePresetLayer(env, layer), layer)

\* Layer.effective_cooldown_cycles
EffectiveCooldownCycles(env, layer) ==
    CooldownOver(GetActivePresetLayer(env, layer), layer)

\* Environment.effective_max_weight
EffectiveMaxWeight(env) == MaxWeightOver(GetActivePreset(env), env)

\* the layer of env with the given id (first match), as the `next(...)` lookups do
LayerById(env, id) ==
    env.layers[First({i \in 1..Len(env.layers) : env.layers[i].id = id})]

----------------------------------------------------------------------------
(* Sound files on disk: AUDIO_DIR / "{file_id}.mp3" *)

Files == {"f1", "f2"}

\* whether sound_path.exists() in _get_or_load_layer
FileExists(file_id) == file_id \in Files

\* len(audio_data) of the decoded file, in samples
AudioLengthSamples(file_id) == IF file_id = "f1" THEN chunk_samples \div 2
                               ELSE 2 * chunk_samples

----------------------------------------------------------------------------
(* Layer runtime: layer_info.py *)

\* LayerInfo.__init__; cycle counts the loop boundaries passed since the
\* runtime was created or reset and first_play is the _should_play its first
\* cycle began with (both observation only)
NewLayerInfo(file_id, layer) ==
    [layer_id |-> layer.id,
     file_id |-> file_id,
     audio_length_samples |-> AudioLengthSamples(file_id),
     position |-> 0,
     audio_position |-> 0,
     active_sound_index |-> layer.selected_sound_index,
     should_play |-> FALSE,
     will_play_next |-> FALSE,
     checked_for_next |-> FALSE,
     cooldown_cycles_elapsed |-> 0,
     in_cooldown |-> FALSE,
     is_finished |-> FALSE,
     cycle |-> 0,
     first_play |-> FALSE]

\* LayerInfo.loop_length_samples
LoopLengthSamples(layer) ==
    LET loop_length_ms == IF layer.loop_length_ms = NoValue \/ layer.loop_length_ms = 0
                          THEN DEFAULT_LOOP_MS ELSE layer.loop_length_ms
    IN (SAMPLE_RATE * loop_length_ms) \div 1000

\* LayerInfo.update_active_sound_index; pick is the index random.choices draws
UpdateActiveSoundIndex(rt, layer, pick) ==
    IF Len(layer.sounds) = 0 THEN rt.active_sound_index
    ELSE LET idx == CASE layer.mode = "SINGLE" -> layer.selected_sound_index
                      [] layer.mode = "SEQUENCE" ->
                            (rt.active_sound_index + 1) % Len(layer.sounds)
                      [] layer.mode = "SHUFFLE" -> pick
                      [] OTHER -> rt.active_sound_index
         IN IF idx >= Len(layer.sounds) THEN 0 ELSE idx

\* LayerInfo.reset_position
ResetPosition(rt) ==
    [rt EXCEPT !.position = 0,
               !.audio_position = 0,
               !.cooldown_cycles_elapsed = 0,
               !.in_cooldown = FALSE,
               !.should_play = FALSE,
               !.will_play_next = FALSE,
               !.checked_for_next = FALSE,
               !.cycle = 0]

\* LayerInfo._check_chance_and_cooldown; roll is what random.random() returns
CheckChanceAndCooldown(rt, env, layer, roll) ==
    IF rt.in_cooldown THEN FALSE
    ELSE IF roll > EffectiveChance(env, layer) THEN FALSE
    ELSE TRUE

\* LayerInfo._check_weight_limits
CheckWeightLimits(env, layer, current_weight) ==
    ~ (current_weight + EffectiveWeight(env, layer) > EffectiveMaxWeight(env))

\* LayerInfo.check_and_prepare_next_cycle: the decision it returns
CheckAndPrepareNextCycle(rt, env, layer, current_weight, roll) ==
    IF ~ CheckChanceAndCooldown(rt, env, layer, roll) THEN FALSE
    ELSE IF ~ CheckWeightLimits(env, layer, current_weight) THEN FALSE
    ELSE TRUE

\* the second loop of check_initial_weights: the layers are checked in
\* sequence, accumulating the weight of those that pass.  PrepareDecided is
\* the rest of the loop once check_and_prepare_next_cycle answered ok for the
\* i-th layer, PrepareLayer the i-th pass.
RECURSIVE PrepareAll(_, _, _, _, _, _)
PrepareDecided(cache, keys, i, current_weight, env, rolls, layer, ok) ==
    PrepareAll([cache EXCEPT ![keys[i]].will_play_next = ok,
                             ![keys[i]].checked_for_next = TRUE],
               keys, i + 1,
               IF ok THEN current_weight + EffectiveWeight(env, layer)
               ELSE current_weight,
               env, rolls)

PrepareLayer(cache, keys, i, current_weight, env, rolls, layer) ==
    PrepareDecided(cache, keys, i, current_weight, env, rolls, layer,
                   CheckAndPrepareNextCycle(cache[keys[i]], env, layer,
                                            current_weight, rolls[layer.id]))

PrepareAll(cache, keys, i, current_weight, env, rolls) ==
    IF i > Len(keys) THEN cache
    ELSE PrepareLayer(cache, keys, i, current_weight, env, rolls,
                      LayerById(env, cache[keys[i]].layer_id))

KeySet(keys) == {keys[i] : i \in 1..Len(keys)}

\* the first loop of check_initial_weights
ClearNext(cache, keys) ==
    [k \in DOMAIN cache |->
        IF k \in KeySet(keys)
        THEN [cache[k] EXCEPT !.checked_for_next = FALSE, !.will_play_next = FALSE]
        ELSE cache[k]]

\* the third loop of check_initial_weights
CommitNext(cache, keys) ==
    [k \in DOMAIN cache |->
        IF k \in KeySet(keys)
        THEN [cache[k] EXCEPT !.should_play = cache[k].will_play_next]
        ELSE cache[k]]

\* LayerInfo.check_initial_weights(layers), layers given by their cache keys
CheckInitialWeights(cache, keys, env, rolls) ==
    CommitNext(PrepareAll(ClearNext(cache, keys), keys, 1, 0, env, rolls), keys)

\* whether indexing layer.sounds[layer.selected_sound_index] raises
BadIndex(layer) ==
    Len(layer.sounds) > 0 /\ layer.selected_sound_index >= Len(layer.sounds)

\* whether the loop over self.layer._environment.layers at a loop point raises:
\* it indexes the sounds of every layer that has sounds by selected_sound_index
EnvIndexRaises(env) == \E i \in 1..Len(env.layers) : BadIndex(env.layers[i])

\* the env_layers list get_next_chunk builds at a loop point: the cached
\* runtimes keyed by each layer's selected sound, in declared layer order
RECURSIVE EnvLayerKeys(_, _, _)
EnvLayerKeys(cache, env, i) ==
    IF i > Len(env.layers) THEN << >>
    ELSE LET layer == env.layers[i]
             rest == EnvLayerKeys(cache, env, i + 1)
         IN IF Len(layer.sounds) = 0 THEN rest
            ELSE LET key == <<layer.id,
                              layer.sounds[layer.selected_sound_index + 1].file_id>>
                 IN IF key \in DOMAIN cache THEN <<key>> \o rest ELSE rest

\* (mutant) the cooldown ends only once the cycles elapsed exceed cooldown_cycles
CooldownStepStrict(rt, cooldown_cycles) ==
    IF rt.should_play
    THEN [rt EXCEPT !.in_cooldown = TRUE, !.cooldown_cycles_elapsed = 0]
    ELSE IF rt.in_cooldown
    THEN [rt EXCEPT !.cooldown_cycles_elapsed = @ + 1,
                    !.in_cooldown = ~ (rt.cooldown_cycles_elapsed + 1 > cooldown_cycles)]
    ELSE rt

\* the cooldown handling of get_next_chunk at the loop point, cooldown_cycles
\* being the effective value or 0 when there is none
CooldownStep(rt, cooldown_cycles) ==
    IF rt.should_play
    THEN [rt EXCEPT !.in_cooldown = TRUE, !.cooldown_cycles_elapsed = 0]
    ELSE IF rt.in_cooldown
    THEN [rt EXCEPT !.cooldown_cycles_elapsed = @ + 1,
                    !.in_cooldown = ~ (rt.cooldown_cycles_elapsed + 1 >= cooldown_cycles)]
    ELSE rt

CooldownAtLoopPoint(rt, env, layer) ==
    CooldownStep(rt, IF EffectiveCooldownCycles(env, layer) = NoValue THEN 0
                     ELSE EffectiveCooldownCycles(env, layer))

\* the audio samples a pass of the while loop of get_next_chunk copies into
\* the chunk for a span of the loop
AudioSamples(rt, span) ==
    IF span > 0 /\ rt.should_play /\ rt.audio_position < rt.audio_length_samples
    THEN Min(span, rt.audio_length_samples - rt.audio_position)
    ELSE 0

\* (mutant) the loop position advances only by the audio samples copied
AdvanceRuntimeAudioOnly(rt, span) ==
    [rt EXCEPT !.audio_position = rt.audio_position + AudioSamples(rt, span),
               !.position = rt.position + AudioSamples(rt, span)]

\* "Normal playback": the positions after a pass away from the loop point
AdvanceRuntime(rt, span) ==
    [rt EXCEPT !.audio_position = rt.audio_position + AudioSamples(rt, span),
               !.position = rt.position + span]

\* "First phase: Check all layers in environment" at the loop point
CheckEnvLayers(cache, keys, env, rolls) ==
    IF Len(keys) > 0 THEN CheckInitialWeights(cache, keys, env, rolls) ELSE cache

\* the runtime after "Reset positions at loop point", update_active_sound_index
\* and the cooldown handling
WrapRuntime(rt, env, layer, pick) ==
    CooldownAtLoopPoint([rt EXCEPT !.position = 0,
                                   !.audio_position = 0,
                                   !.cycle = rt.cycle + 1,
                                   !.active_sound_index =
                                       UpdateActiveSoundIndex(rt, layer, pick)],
                        env, layer)

\* the cache after the loop-point branch; rolls.chance[l] is the roll drawn
\* for layer l and rolls.pick[l] the shuffle draw
LoopPoint(cache, env, rolls) ==
    CheckEnvLayers(cache, EnvLayerKeys(cache, env, 1), env, rolls.chance)

\* The while loop of get_next_chunk for the runtime cached under key: rem is
\* samples_remaining, off is chunk_offset.  The result is the cache after the
\* call, the number of audio samples copied into the chunk, and whether the
\* call raised (the slice no longer fits the chunk, or the loop point indexes
\* a layer's sounds out of range), which get_next_chunk answers with silence.  ChunkPass is one pass: span is
\* samples_until_loop in the loop-point branch (wraps) and
\* samples_this_iteration otherwise.
RECURSIVE ChunkLoop(_, _, _, _, _, _, _)
ChunkPass(cache, key, env, chunk_size, rem, off, rolls, rt, layer, wraps, span) ==
    IF off + AudioSamples(rt, span) > chunk_size
    THEN [cache |-> cache, copied |-> 0, raised |-> TRUE]
    ELSE IF wraps /\ EnvIndexRaises(env)
    THEN [cache |-> [cache EXCEPT ![key] =
                        WrapRuntime(rt, env, layer, rolls.pick[rt.layer_id])],
          copied |-> 0, raised |-> TRUE]
    ELSE IF wraps
    THEN ChunkLoop(LoopPoint([cache EXCEPT ![key] =
                                 WrapRuntime(rt, env, layer, rolls.pick[rt.layer_id])],
                             env, rolls),
                   key, env, chunk_size, rem - span, off + AudioSamples(rt, span), rolls)
    ELSE ChunkLoop([cache EXCEPT ![key] = AdvanceRuntime(rt, span)],
                   key, env, chunk_size, rem - span, off + AudioSamples(rt, span), rolls)

\* (mutant) the loop point is taken only once the position is past it
ChunkBranchPastLoop(cache, key, env, chunk_size, rem, off, rolls, rt, layer) ==
    IF rt.position > LoopLengthSamples(layer)
    THEN ChunkPass(cache, key, env, chunk_size, rem, off, rolls, rt, layer, TRUE,
                   LoopLengthSamples(layer) - rt.position)
    ELSE ChunkPass(cache, key, env, chunk_size, rem, off, rolls, rt, layer, FALSE, rem)

ChunkBranch(cache, key, env, chunk_size, rem, off, rolls, rt, layer) ==
    IF rt.position + rem > LoopLengthSamples(layer)
    THEN ChunkPass(cache, key, env, chunk_size, rem, off, rolls, rt, layer, TRUE,
                   LoopLengthSamples(layer) - rt.position)
    ELSE ChunkPass(cache, key, env, chunk_size, rem, off, rolls, rt, layer, FALSE,
                   Min(rem, LoopLengthSamples(layer) - rt.position))

ChunkLoop(cache, key, env, chunk_size, rem, off, rolls) ==
    IF rem <= 0 THEN [cache |-> cache, copied |-> off, raised |-> FALSE]
    ELSE ChunkBranch(cache, key, env, chunk_size, rem, off, rolls, cache[key],
                     LayerById(env, cache[key].layer_id))

\* LayerInfo.get_next_chunk(chunk_size, _)
GetNextChunk(cache, key, env, chunk_size, rolls) ==
    ChunkLoop(cache, key, env, chunk_size, chunk_size, 0, rolls)

----------------------------------------------------------------------------
(* Environment fade window: audio.py *)

\* Environment.is_fading at time t
IsFading(env, t) ==
    IF env.fade_start_time = NoValue \/ env.fade_end_time = NoValue THEN FALSE
    ELSE t >= env.fade_start_time /\ t < env.fade_end_time

\* (mutant) the fade-out runs the way of the fade-in
FadeProgressOneWay(env, t) ==
    IF ~ IsFading(env, t)
    THEN IF env.play_state = "PLAYING" THEN <<1, 1>> ELSE <<0, 1>>
    ELSE <<t - env.fade_start_time, env.fade_end_time - env.fade_start_time>>

\* Environment.fade_progress at time t, as the fraction <<numerator, denominator>>
FadeProgress(env, t) ==
    IF ~ IsFading(env, t)
    THEN IF env.play_state = "PLAYING" THEN <<1, 1>> ELSE <<0, 1>>
    ELSE LET d == env.fade_end_time - env.fade_start_time
             e == t - env.fade_start_time
             raw == IF e < 0 THEN 0 ELSE IF e > d THEN d ELSE e
         IN IF env.play_state = "PLAYING" THEN <<raw, d>> ELSE <<d - raw, d>>

\* Environment.start_fade at time t; the duration is the owning AppState's
\* effects.fades.crossfade_duration
StartFade(env, crossfade_duration, t) ==
    [env EXCEPT !.fade_start_time = t,
                !.fade_end_time = t + crossfade_duration]

\* Environment.update_fade_state at time t
UpdateFadeState(env, t) ==
    IF ~ IsFading(env, t) THEN env
    ELSE LET progress == FadeProgress(env, t)
             fade_complete == IF env.play_state = "PLAYING"
                              THEN progress[1] >= progress[2]
                              ELSE progress[1] <= 0
         IN IF fade_complete
            THEN [env EXCEPT !.fade_start_time = NoValue, !.fade_end_time = NoValue]
            ELSE env

----------------------------------------------------------------------------
(* Mixer: mixer.py *)

EmptyCache == [k \in {} |-> None]

\* the cache key whose prefix is "{layer_id}_"; a layer has at most one
KeysOfLayer(cache, layer_id) == {k \in DOMAIN cache : k[1] = layer_id}

\* the clamp `if layer.selected_sound_index >= len(layer.sounds): ... = 0`
ClampSelected(layer) ==
    IF Len(layer.sounds) > 0 /\ layer.selected_sound_index >= Len(layer.sounds)
    THEN [layer EXCEPT !.selected_sound_index = 0]
    ELSE layer

\* AudioMixer._get_or_load_layer(file_id, layer): the cache afterwards and the
\* key of the runtime, or found = FALSE when the file is missing
GetOrLoadLayer(cache, file_id, layer) ==
    LET key == <<layer.id, file_id>>
    IN IF key \in DOMAIN cache THEN [cache |-> cache, key |-> key, found |-> TRUE]
       ELSE IF ~ FileExists(file_id) THEN [cache |-> cache, key |-> key, found |-> FALSE]
       ELSE [cache |-> [k \in DOMAIN cache \cup {key} |->
                           IF k = key THEN NewLayerInfo(file_id, layer) ELSE cache[k]],
             key |-> key, found |-> TRUE]

\* "load and reset" of one layer, as start_processing and the STOPPED to
\* PLAYING reset of the loop do it; play is the value given to _should_play
LoadAndReset(cache, layer, play) ==
    IF Len(layer.sounds) = 0 THEN cache
    ELSE LET l == ClampSelected(layer)
             got == GetOrLoadLayer(cache, l.sounds[l.selected_sound_index + 1].file_id, l)
         IN IF got.found
            THEN [got.cache EXCEPT ![got.key] =
                     [ResetPosition(got.cache[got.key]) EXCEPT !.should_play = play,
                                                               !.first_play = play]]
            ELSE got.cache

RECURSIVE LoadLayers(_, _, _, _)
LoadLayers(cache, layers, i, play) ==
    IF i > Len(layers) THEN cache
    ELSE LoadLayers(LoadAndReset(cache, layers[i], play), layers, i + 1, play)

\* the first loop of start_processing over every environment and layer
RECURSIVE LoadEnvironments(_, _, _)
LoadEnvironments(cache, envs, i) ==
    IF i > Len(envs) THEN cache
    ELSE LoadEnvironments(LoadLayers(cache, envs[i].layers, 1,
                                     envs[i].play_state = "PLAYING"),
                          envs, i + 1)

\* the snapshot with every selected_sound_index clamped where start_processing
\* or the loop clamps it
ClampState(app) ==
    [app EXCEPT !.environments =
        [e \in 1..Len(app.environments) |->
            [app.environments[e] EXCEPT !.layers =
                [l \in 1..Len(app.environments[e].layers) |->
                    ClampSelected(app.environments[e].layers[l])]]]]

EnvStatesOf(app) ==
    [id \in {app.environments[e].id : e \in 1..Len(app.environments)} |->
        LET i == CHOOSE e \in 1..Len(app.environments) :
                    /\ app.environments[e].id = id
                    /\ \A f \in 1..Len(app.environments) :
                          app.environments[f].id = id => f <= e
        IN app.environments[i].play_state]

\* the STOPPED to PLAYING reset of one environment in the loop
RECURSIVE ResetLayers(_, _, _)
ResetLayers(cache, layers, i) ==
    IF i > Len(layers) THEN cache
    ELSE LET layer == layers[i]
             cleared == IF Len(layer.sounds) = 0 THEN cache
                        ELSE [k \in DOMAIN cache \ KeysOfLayer(cache, layer.id) |-> cache[k]]
         IN ResetLayers(LoadAndReset(cleared, layer, TRUE), layers, i + 1)

RECURSIVE ResetTransitions(_, _, _, _)
ResetTransitions(cache, envs, states, i) ==
    IF i > Len(envs) THEN cache
    ELSE LET env == envs[i]
             restarted == /\ env.play_state = "PLAYING"
                          /\ env.id \in DOMAIN states
                          /\ states[env.id] = "STOPPED"
         IN ResetTransitions(IF restarted THEN ResetLayers(cache, env.layers, 1) ELSE cache,
                             envs, states, i + 1)

\* what one loop iteration is observed to do: whether a frame was submitted to
\* the transport, the layers get_next_chunk was called for, those whose
\* _should_play was true when it was called, the audio samples each call copied
\* into its chunk, the loop position around each call, the bytes queued, and
\* whether an exception escaped the iteration
NoFrame == [submitted |-> FALSE, called |-> {}, playing |-> {},
            copied |-> EmptyCache, before |-> EmptyCache, after |-> EmptyCache,
            bytes |-> 0, raised |-> FALSE]

\* len(mixed_chunk.tobytes()) for a chunk of int16 samples
FrameBytesMono(samples) == samples * BYTES_PER_SAMPLE

FrameBytes(samples) == samples * CHANNELS * BYTES_PER_SAMPLE

Extend(f, x, v) == [y \in DOMAIN f \cup {x} |-> IF y = x THEN v ELSE f[y]]

\* the runtime cached for the layer, or the one _get_or_load_layer creates
\* for its selected sound
RuntimeOfLayer(cache, layer) ==
    IF KeysOfLayer(cache, layer.id) # {}
    THEN [cache |-> cache, found |-> TRUE,
          key |-> CHOOSE k \in KeysOfLayer(cache, layer.id) : TRUE]
    ELSE GetOrLoadLayer(cache,
             ClampSelected(layer).sounds[ClampSelected(layer).selected_sound_index + 1].file_id,
             ClampSelected(layer))

\* the observation of one call of get_next_chunk: rt is the runtime before
\* the call, res what the call returned
Observe(obs, layer_id, key, rt, res) ==
    [cache |-> res.cache,
     obs |-> [obs EXCEPT !.called = @ \cup {layer_id},
                         !.playing = IF rt.should_play THEN @ \cup {layer_id} ELSE @,
                         !.copied = Extend(@, layer_id, res.copied),
                         !.before = Extend(@, layer_id, rt.position),
                         !.after = Extend(@, layer_id, res.cache[key].position)]]

\* the body of the inner loop of _process_audio for one layer whose runtime
\* lookup gave got
MixRuntime(acc, got, env, layer, rollsOf) ==
    IF ~ got.found THEN [acc EXCEPT !.cache = got.cache]
    ELSE Observe(acc.obs, layer.id, got.key, got.cache[got.key],
                 GetNextChunk(got.cache, got.key, env, chunk_samples, rollsOf[layer.id]))

\* "Process each layer in the environment": the inner loop of _process_audio
\* over env.layers from the i-th on.  acc is the cache and the observation so
\* far; rollsOf[l] holds the random draws made during the call of
\* get_next_chunk for layer l.
RECURSIVE MixLayers(_, _, _, _)
MixLayers(acc, env, i, rollsOf) ==
    IF i > Len(env.layers) THEN acc
    ELSE IF Len(env.layers[i].sounds) = 0 THEN MixLayers(acc, env, i + 1, rollsOf)
    ELSE MixLayers(MixRuntime(acc, RuntimeOfLayer(acc.cache, env.layers[i]), env,
                              env.layers[i], rollsOf),
                   env, i + 1, rollsOf)

\* "Mix all active layers from environments": the outer loop over active_envs
RECURSIVE MixEnvs(_, _, _, _, _)
MixEnvs(acc, envs, i, t, rollsOf) ==
    IF i > Len(envs) THEN acc
    ELSE IF /\ (envs[i].play_state = "PLAYING" \/ IsFading(envs[i], t))
            /\ FadeProgress(envs[i], t)[1] > 0
    THEN MixEnvs(MixLayers(acc, envs[i], 1, rollsOf), envs, i + 1, t, rollsOf)
    ELSE MixEnvs(acc, envs, i + 1, t, rollsOf)

\* soundboard_layers of _process_audio
SoundboardLayers(cache) ==
    {k \in DOMAIN cache : /\ k[1] = "soundboard"
                          /\ cache[k].should_play
                          /\ ~ cache[k].is_finished}

\* active_envs of _process_audio at time t
ActiveEnvs(app, t) ==
    {e \in 1..Len(app.environments) :
        /\ (app.environments[e].play_state = "PLAYING" \/ IsFading(app.environments[e], t))
        /\ FadeProgress(app.environments[e], t)[1] > 0}

\* the layers of the snapshot the loop clamps on the way: those of an
\* environment it restarts and those it creates a runtime for
ClampedByLoop(app, states, cache, t) ==
    [app EXCEPT !.environments =
        [e \in 1..Len(app.environments) |->
            LET env == app.environments[e]
                restarted == /\ env.play_state = "PLAYING"
                             /\ env.id \in DOMAIN states
                             /\ states[env.id] = "STOPPED"
            IN [env EXCEPT !.layers =
                  [l \in 1..Len(env.layers) |->
                      IF restarted \/ (e \in ActiveEnvs(app, t)
                                       /\ KeysOfLayer(cache, env.layers[l].id) = {})
                      THEN ClampSelected(env.layers[l])
                      ELSE env.layers[l]]]]]

\* the end of an iteration that mixed: what it leaves behind
Submitted(app1, states1, mixed) ==
    [app |-> app1, cache |-> mixed.cache, states |-> states1, stop |-> FALSE,
     frame |-> [mixed.obs EXCEPT !.submitted = mixed.obs.called # {},
                                 !.bytes = IF mixed.obs.called # {}
                                           THEN FrameBytes(chunk_samples) ELSE 0]]

\* the iteration after the STOPPED to PLAYING resets: the self-stop, or the mix
StopOrMix(app1, cache1, states1, t, rollsOf) ==
    IF ActiveEnvs(app1, t) = {} /\ SoundboardLayers(cache1) = {}
    THEN [app |-> app1, cache |-> cache1, states |-> states1, stop |-> TRUE,
          frame |-> NoFrame]
    ELSE Submitted(app1, states1,
                   MixEnvs([cache |-> cache1, obs |-> NoFrame], app1.environments, 1,
                           t, rollsOf))

\* One iteration of the while loop of _process_audio that got past the
\* app_state, connection and buffer checks, at time t: the values it leaves in
\* _cached_layers, _env_states and the snapshot, whether it stops the loop
\* (_is_running = False), and what it did.
LoopIteration(app, cache, states, t, rollsOf) ==
    StopOrMix(ClampedByLoop(app, states,
                            ResetTransitions(cache, app.environments, states, 1), t),
              ResetTransitions(cache, app.environments, states, 1),
              EnvStatesOf(app), t, rollsOf)

\* AudioMixer.start_processing(app) once the old thread is joined and the voice
\* client is there: the values it leaves behind
StartedState(app) ==
    [app |-> ClampState(app),
     cache |-> LoadEnvironments(EmptyCache, ClampState(app).environments, 1),
     states |-> EnvStatesOf(app)]

----------------------------------------------------------------------------
(* Reconciler: routes/workspace.py *)

EnvHits(app, id) ==
    {i \in 1..Len(app.environments) : app.environments[i].id = id}

\* next((e for e in prev_state.environments if e.id == id), None)
EnvById(app, id) ==
    IF app = None THEN None
    ELSE IF EnvHits(app, id) = {} THEN None
    ELSE app.environments[First(EnvHits(app, id))]

LayerHits(env, id) == {i \in 1..Len(env.layers) : env.layers[i].id = id}

\* next((l for l in prev_env.layers if l.id == id), None)
PrevLayer(env, id) ==
    IF env = None THEN None
    ELSE IF LayerHits(env, id) = {} THEN None
    ELSE env.layers[First(LayerHits(env, id))]

\* should_play of compare_workspaces, at time t
ShouldPlay(new, t) ==
    \E i \in 1..Len(new.environments) :
        \/ new.environments[i].play_state = "PLAYING"
        \/ IsFading(new.environments[i], t)

\* the transitions list of compare_workspaces, as indices of new.environments
Transitions(prev, new) ==
    {i \in 1..Len(new.environments) :
        /\ EnvById(prev, new.environments[i].id) # None
        /\ EnvById(prev, new.environments[i].id).play_state
              # new.environments[i].play_state}

FromState(prev, new, i) == EnvById(prev, new.environments[i].id).play_state

\* is_crossfade of compare_workspaces
IsCrossfade(prev, new) ==
    /\ Cardinality(Transitions(prev, new)) = 2
    /\ \E i, j \in Transitions(prev, new) :
          /\ i # j
          /\ FromState(prev, new, i) = "PLAYING"
          /\ new.environments[i].play_state = "STOPPED"
          /\ FromState(prev, new, j) = "STOPPED"
          /\ new.environments[j].play_state = "PLAYING"

\* FadeTransition without the fade-in of the environment a crossfade starts
FadeTransitionNoFadeIn(env, from_state, is_crossfade, crossfade_duration, t) ==
    IF from_state = "PLAYING" /\ env.play_state = "STOPPED"
    THEN StartFade(env, crossfade_duration, t)
    ELSE IF from_state = "STOPPED" /\ env.play_state = "PLAYING"
    THEN UpdateFadeState(env, t)
    ELSE env

\* "Handle transitions with crossfade awareness" for one transition
FadeTransition(env, from_state, is_crossfade, crossfade_duration, t) ==
    IF from_state = "PLAYING" /\ env.play_state = "STOPPED"
    THEN StartFade(env, crossfade_duration, t)
    ELSE IF from_state = "STOPPED" /\ env.play_state = "PLAYING"
    THEN IF is_crossfade THEN StartFade(env, crossfade_duration, t)
         ELSE UpdateFadeState(env, t)
    ELSE env

\* new_state after the environment transitions were handled
Faded(prev, new, t) ==
    [new EXCEPT !.environments =
        [i \in 1..Len(new.environments) |->
            IF i \in Transitions(prev, new)
            THEN FadeTransition(new.environments[i], FromState(prev, new, i),
                                IsCrossfade(prev, new), new.crossfade_duration, t)
            ELSE new.environments[i]]]

\* "Handle layer-level transitions" for one layer of new_env: it raises when
\* the active sound cannot be indexed, and when the layer is in both states
\* with sounds and has a cached runtime, whose _free_weight it reads:
\* LayerInfo has no such attribute
LayerRaises(prev_env, new_layer, cache) ==
    /\ PrevLayer(prev_env, new_layer.id) # None
    /\ \/ BadIndex(new_layer)
       \/ BadIndex(PrevLayer(prev_env, new_layer.id))
       \/ /\ Len(new_layer.sounds) > 0
          /\ Len(PrevLayer(prev_env, new_layer.id).sounds) > 0
          /\ KeysOfLayer(cache, new_layer.id) # {}

LayerDiffRaises(prev, new, cache) ==
    /\ prev # None
    /\ \E i \in 1..Len(new.environments) :
          /\ EnvById(prev, new.environments[i].id) # None
          /\ \E l \in 1..Len(new.environments[i].layers) :
                LayerRaises(EnvById(prev, new.environments[i].id),
                            new.environments[i].layers[l], cache)

\* compare_workspaces(prev, new) at time t: new_state as it leaves it, whether
\* it raised, and what it asks of the mixer: "start" (start_processing),
\* "publish" (the assignment to _app_state under the lock) or "none"
CompareWorkspaces(prev, new, cache, running, t) ==
    [state |-> Faded(prev, new, t),
     raised |-> LayerDiffRaises(prev, new, cache),
     todo |-> IF LayerDiffRaises(prev, new, cache) THEN "none"
              ELSE IF ShouldPlay(new, t) /\ ~ running THEN "start"
              ELSE IF running THEN "publish"
              ELSE "none"]

\* the workspace as json: the runtime fade window is not serialized
Saved(app) ==
    [app EXCEPT !.environments =
        [i \in 1..Len(app.environments) |->
            [app.environments[i] EXCEPT !.fade_start_time = NoValue,
                                        !.fade_end_time = NoValue]]]

\* ensure_workspace_dir on the saved workspace: every playState is STOPPED
AllStopped(app) ==
    [app EXCEPT !.environments =
        [i \in 1..Len(app.environments) |->
            [app.environments[i] EXCEPT !.play_state = "STOPPED"]]]

\* get_default_config
DefaultConfig == [environments |-> << >>, crossfade_duration |-> DEFAULT_CROSSFADE_MS]

\* load_workspace at start-up, after ensure_workspace_dir: the AppState of the
\* saved workspace, its runtime fields unset
LoadWorkspace(config) == Saved(AllStopped(config))

\* current_state of update_workspace
CurrentState(mixer_state, config) ==
    IF mixer_state # None THEN mixer_state ELSE AllStopped(config)

----------------------------------------------------------------------------
(* Layer scheduling: one PLAYING environment mixed frame by frame *)

LayerIds == {"A", "B"}

LoopLengthsMs == {(CHUNK_MS * k) \div 2 : k \in 1..MaxLoopHalfChunks}

Chances == {0, RollDen}

\* a layer whose effective values are chance, cooldown, weight: held by the
\* layer itself (via = "base"), or by the layer override of the active preset
\* while the layer holds other values (via = "preset")
SchedLayer(id, file_id, chance, cooldown, loop_ms, weight, via) ==
    [id |-> id,
     chance |-> IF via = "base" THEN chance ELSE RollDen - chance,
     cooldown_cycles |-> IF via = "base" THEN cooldown ELSE cooldown + 1,
     loop_length_ms |-> loop_ms,
     weight |-> IF via = "base" THEN weight ELSE weight + 1,
     mode |-> "SINGLE",
     selected_sound_index |-> 0,
     sounds |-> << [id |-> "s1", file_id |-> file_id] >>]

SchedPresetLayer(id, chance, cooldown, weight) ==
    [id |-> id, chance |-> chance, cooldown_cycles |-> cooldown, weight |-> weight]

SchedLayerChoices(file_id) ==
    {[file_id |-> file_id, chance |-> c, cooldown |-> cd, loop_ms |-> lp, weight |-> w] :
        c \in Chances, cd \in 0..MaxCooldown,
        lp \in LoopLengthsMs, w \in 1..MaxLayerWeight}

\* the layers of the scheduling model: none, A, or A and B
SchedLayers(a, b, count, via) ==
    SubSeq(<< SchedLayer("A", a.file_id, a.chance, a.cooldown, a.loop_ms, a.weight, via),
              SchedLayer("B", b.file_id, b.chance, b.cooldown, b.loop_ms, b.weight, via) >>,
           1, count)

SchedPresetLayers(a, b, count) ==
    SubSeq(<< SchedPresetLayer("A", a.chance, a.cooldown, a.weight),
              SchedPresetLayer("B", b.chance, b.cooldown, b.weight) >>,
           1, count)

\* the environment of the scheduling model, PLAYING
SchedEnv(a, b, count, max_weight, via) ==
    [id |-> "E1",
     max_weight |-> IF via = "base" THEN max_weight ELSE max_weight + 1,
     layers |-> SchedLayers(a, b, count, via),
     presets |-> IF via = "base" THEN << >>
                 ELSE << [id |-> "p1", max_weight |-> max_weight,
                          layers |-> SchedPresetLayers(a, b, count)] >>,
     active_preset_id |-> IF via = "base" THEN "" ELSE "p1",
     play_state |-> "PLAYING",
     fade_start_time |-> NoValue,
     fade_end_time |-> NoValue]

\* the workspaces posted in the scheduling model
SchedStates ==
    {[environments |-> << SchedEnv(a, b, count, mw, via) >>, crossfade_duration |-> 0] :
        a \in SchedLayerChoices("f1"),
        b \in SchedLayerChoices("f2"),
        count \in 0..2, mw \in 1..MaxEnvWeight, via \in {"base", "preset"}}

HasLayers(app) ==
    \E i \in 1..Len(app.environments) : Len(app.environments[i].layers) > 0

\* the random draws of one loop iteration: for the call of get_next_chunk of
\* each layer, a roll per layer and a shuffle pick per layer
RollsOf ==
    [LayerIds -> {[chance |-> c, pick |-> [l \in LayerIds |-> 0]] :
                     c \in [LayerIds -> Rolls]}]

NoThreads == [t \in {} |-> "none"]

\* AudioMixer.__init__
MixerInit ==
    /\ app_state = None
    /\ cached_layers = EmptyCache
    /\ env_states = EmptyCache
    /\ is_running = FALSE
    /\ frame = NoFrame
    /\ lock = "free"
    /\ process_thread = 0

SchedInit ==
    /\ MixerInit
    /\ now = 0
    /\ current_instance = None
    /\ config_file = DefaultConfig
    /\ last_compare = None
    /\ audio_pc = NoThreads
    /\ ctl = NoThreads
    /\ next_frame_time = 0
    /\ buffer = 0
    /\ effective = None
    /\ workspace = LoadWorkspace(config_file)
    /\ response = None
    /\ request = None

\* what the reconciler saw of the environments of prev_state
EnvSummary(prev) ==
    IF prev = None THEN << >>
    ELSE [i \in 1..Len(prev.environments) |->
            [id |-> prev.environments[i].id,
             play_state |-> prev.environments[i].play_state,
             fade_start_time |-> prev.environments[i].fade_start_time,
             fade_end_time |-> prev.environments[i].fade_end_time]]

\* AppState.from_dict leaves new_state in AppState._current_instance, where
\* compare_workspaces(prev, new) at time t changes it
Observed(prev, cmp, t) ==
    /\ current_instance' = cmp.state
    /\ last_compare' = [prev |-> [environments |-> EnvSummary(prev)], at |-> t,
                        todo |-> cmp.todo, raised |-> cmp.raised]

\* what compare_workspaces(prev, new) at time t asks of the mixer,
\* start_processing running to its end with the bot manager attached and the
\* voice client connected
Reconciled(prev, cmp, t) ==
    /\ Observed(prev, cmp, t)
    /\ IF cmp.todo = "start"
       THEN /\ app_state' = StartedState(cmp.state).app
            /\ cached_layers' = StartedState(cmp.state).cache
            /\ env_states' = StartedState(cmp.state).states
            /\ is_running' = TRUE
       ELSE IF cmp.todo = "publish"
       THEN /\ app_state' = cmp.state
            /\ UNCHANGED <<cached_layers, env_states, is_running>>
       ELSE UNCHANGED <<app_state, cached_layers, env_states, is_running>>

\* update_workspace for a posted workspace new, at time now
UpdateWorkspace(new) ==
    /\ config_file' = Saved(new)
    /\ Reconciled(CurrentState(app_state, config_file),
                  CompareWorkspaces(CurrentState(app_state, config_file), new,
                                    cached_layers, is_running, now),
                  now)

\* POST /workspace in the scheduling model: layers are posted into the
\* workspace once
SchedPost ==
    /\ ~ HasLayers(config_file)
    /\ \E new \in SchedStates : UpdateWorkspace(new)
    /\ UNCHANGED <<now, frame, lock, process_thread, audio_pc, ctl>>
    /\ UNCHANGED <<next_frame_time, buffer, effective,
                   workspace, response, request>>

\* what an iteration of the loop of _process_audio leaves behind
LeaveIteration(it) ==
    /\ app_state' = it.app
    /\ cached_layers' = it.cache
    /\ env_states' = it.states
    /\ is_running' = IF it.stop THEN FALSE ELSE is_running
    /\ frame' = it.frame

\* one iteration of the loop of _process_audio, the voice client connected and
\* the transport's buffer not full
SchedFrame ==
    /\ is_running
    /\ app_state # None
    /\ \A k \in DOMAIN cached_layers : cached_layers[k].cycle < MaxCycles
    /\ \E rollsOf \in RollsOf :
          LeaveIteration(LoopIteration(app_state, cached_layers, env_states, now, rollsOf))
    /\ UNCHANGED <<now, current_instance, config_file, last_compare, lock,
                   process_thread, audio_pc, ctl>>
    /\ UNCHANGED <<next_frame_time, buffer, effective,
                   workspace, response, request>>

SchedNext == SchedPost \/ SchedFrame

SchedSpec == SchedInit /\ [][SchedNext]_vars

----------------------------------------------------------------------------
(* Claims about layer scheduling, checked under SchedSpec *)

\* the environments of the snapshot the mixer holds
MixerEnvs ==
    IF app_state = None THEN {}
    ELSE {app_state.environments[i] : i \in 1..Len(app_state.environments)}

\* the sum of the effective weights of those of the first i layers of env
\* whose id is in ids
RECURSIVE WeightOf(_, _, _)
WeightOf(env, i, ids) ==
    IF i = 0 THEN 0
    ELSE WeightOf(env, i - 1, ids)
         + (IF env.layers[i].id \in ids THEN EffectiveWeight(env, env.layers[i]) ELSE 0)

\* the weight of the l-th layer fits whatever the layers declared before it do
Fits(env, l) == WeightOf(env, l, LayerIds) <= EffectiveMaxWeight(env)

\* the runtimes cached for the l-th layer of env
RuntimesOf(env, l) ==
    {cached_layers[k] : k \in KeysOfLayer(cached_layers, env.layers[l].id)}

\* C1: in every frame the loop mixes, for every environment, the effective
\* weights of the layers whose should_play is true in that frame sum to at
\* most the environment's effective max weight.
C1_WeightAdmission ==
    frame.submitted =>
        \A env \in MixerEnvs :
            WeightOf(env, Len(env.layers), frame.playing) <= EffectiveMaxWeight(env)

\* C2: when the only layer of a PLAYING environment has effective chance 0,
\* no submitted frame carries samples of it, from the first frame on.
C2_ChanceZeroSilent ==
    frame.submitted =>
        \A env \in MixerEnvs :
            (/\ env.play_state = "PLAYING"
             /\ Len(env.layers) = 1
             /\ EffectiveChance(env, env.layers[1]) = 0)
            => \A l \in DOMAIN frame.copied : frame.copied[l] = 0

\* the l-th layer of env has effective chance 1, the given effective cooldown
\* and enough free weight
SureLayer(env, l, cooldown) ==
    /\ EffectiveChance(env, env.layers[l]) = RollDen
    /\ EffectiveCooldownCycles(env, env.layers[l]) = cooldown
    /\ Fits(env, l)

C4_PlaysEveryCycle ==
    \A env \in MixerEnvs : \A l \in 1..Len(env.layers) :
        SureLayer(env, l, 0) =>
            \A rt \in RuntimesOf(env, l) : rt.first_play => rt.should_play

\* C5: with effective max weight 1 and layers [A, B] of weight 1 and chance 1,
\* in every frame exactly A plays, and B copies no samples while its loop
\* position moves.
C5_OnlyFirstPlays ==
    frame.submitted =>
        \A env \in MixerEnvs :
            (/\ Len(env.layers) = 2
             /\ EffectiveMaxWeight(env) = 1
             /\ \A l \in 1..2 : /\ EffectiveWeight(env, env.layers[l]) = 1
                                /\ EffectiveChance(env, env.layers[l]) = RollDen)
            => /\ frame.playing = {env.layers[1].id}
               /\ frame.copied[env.layers[2].id] = 0
               /\ frame.after[env.layers[2].id] # frame.before[env.layers[2].id]

\* loop_length_samples of the layer with the given id, from its configuration
LoopSamplesOf(id) ==
    LET env == CHOOSE e \in MixerEnvs : LayerHits(e, id) # {}
        ms == PrevLayer(env, id).loop_length_ms
    IN (SAMPLE_RATE * ms) \div 1000

----------------------------------------------------------------------------
(* Environment fades: three environments without layers, posted with every
   combination of play states, while the clock advances *)

TickMs == DEFAULT_CROSSFADE_MS \div 2

FadeEnvIds == <<"E1", "E2", "E3">>

PlayStates == {"PLAYING", "STOPPED"}

\* Environment.from_dict for an environment without layers: no fade window
FadeEnv(id, play_state) ==
    [id |-> id,
     max_weight |-> 1,
     layers |-> << >>,
     presets |-> << >>,
     active_preset_id |-> "",
     play_state |-> play_state,
     fade_start_time |-> NoValue,
     fade_end_time |-> NoValue]

\* the workspaces posted in the fade model
FadeStates ==
    {[environments |-> [i \in 1..Len(FadeEnvIds) |-> FadeEnv(FadeEnvIds[i], ps[i])],
      crossfade_duration |-> k * TickMs] :
        ps \in [1..Len(FadeEnvIds) -> PlayStates], k \in 0..MaxCrossfadeTicks}

\* POST /workspace in the fade model
FadePost ==
    /\ \E new \in FadeStates : UpdateWorkspace(new)
    /\ UNCHANGED <<now, frame, lock, process_thread, audio_pc, ctl>>
    /\ UNCHANGED <<next_frame_time, buffer, effective,
                   workspace, response, request>>

\* one iteration of the loop of _process_audio
FadeFrame ==
    /\ is_running
    /\ app_state # None
    /\ \E rollsOf \in RollsOf :
          LeaveIteration(LoopIteration(app_state, cached_layers, env_states, now, rollsOf))
    /\ UNCHANGED <<now, current_instance, config_file, last_compare, lock,
                   process_thread, audio_pc, ctl>>
    /\ UNCHANGED <<next_frame_time, buffer, effective,
                   workspace, response, request>>

\* time.time() advances
FadeTick ==
    /\ now < MaxTicks * TickMs
    /\ now' = now + TickMs
    /\ UNCHANGED <<app_state, cached_layers, env_states, is_running, current_instance,
                   config_file, last_compare, frame, lock, process_thread, audio_pc, ctl>>
    /\ UNCHANGED <<next_frame_time, buffer, effective,
                   workspace, response, request>>

FadeNext == FadePost \/ FadeFrame \/ FadeTick

FadeSpec == SchedInit /\ [][FadeNext]_vars

----------------------------------------------------------------------------
(* Claims about environment fades, checked under FadeSpec *)

\* the environments of the last reconcile: of prev_state as it was read, and of
\* new_state as compare_workspaces left it
PrevEnvs == last_compare.prev.environments

NewEnvs == current_instance.environments

Handed == last_compare # None /\ last_compare.todo # "none"

WindowIs(env, start, length) ==
    /\ env.fade_start_time = start
    /\ env.fade_end_time = start + length

\* the transitions of the last reconcile from one play state to the other
Went(from, to) ==
    {i \in Transitions(last_compare.prev, current_instance) :
        /\ FromState(last_compare.prev, current_instance, i) = from
        /\ NewEnvs[i].play_state = to}

\* C7: if a reconcile runs while an environment of the previous state is
\* fading, the matching environment of the snapshot handed to the mixer carries
\* the same fade_start and fade_end.
C7_FadePreserved ==
    Handed =>
        \A p \in 1..Len(PrevEnvs) : \A i \in 1..Len(NewEnvs) :
            (/\ NewEnvs[i].id = PrevEnvs[p].id
             /\ IsFading(PrevEnvs[p], last_compare.at))
            => /\ NewEnvs[i].fade_start_time = PrevEnvs[p].fade_start_time
               /\ NewEnvs[i].fade_end_time = PrevEnvs[p].fade_end_time

OtherActive(i) ==
    \E j \in 1..Len(NewEnvs) :
        /\ j # i
        /\ (NewEnvs[j].play_state = "PLAYING" \/ IsFading(NewEnvs[j], last_compare.at))

\* C9: in a reconcile that is not a crossfade, every PLAYING to STOPPED
\* environment gets a fade-out window of crossfade_duration, and every STOPPED
\* to PLAYING environment gets a fade-in window if another environment is
\* playing or fading, and no window only when none is.
C9_FadeInBesideOthers ==
    (last_compare # None /\ ~ IsCrossfade(last_compare.prev, current_instance))
    => /\ \A i \in Went("PLAYING", "STOPPED") :
             WindowIs(NewEnvs[i], last_compare.at, current_instance.crossfade_duration)
       /\ \A i \in Went("STOPPED", "PLAYING") :
             IF OtherActive(i)
             THEN WindowIs(NewEnvs[i], last_compare.at, current_instance.crossfade_duration)
             ELSE NewEnvs[i].fade_start_time = NoValue

----------------------------------------------------------------------------
(* Threads: the requests of the control plane run on threads of their own and
   interleave with the threads _process_audio runs on. A step of a thread runs
   up to the next acquisition of the mixer's lock or the next wait.

   audio_pc of a thread _process_audio runs on:
     "idle"   not started yet
     "check"  at the test of `while self._is_running`
     "stopped" at the same test, having just set _is_running = False itself
     "wait"   in the body of the loop, before `with self._lock`
     "done"   returned
   ctl[c].pc of a request thread:
     "idle"     between requests
     "start"    calling mixer.start_processing(state), before `with self._lock`
     "join"     in start_processing, holding the lock, at _process_thread.join
     "publish"  before `with mixer._lock: mixer._app_state = state`
     "play"     calling mixer.play_soundboard_sound, before `with self._lock`
     "stopjoin" in stop_processing, holding the lock, at _process_thread.join *)

AudioThreads == 1..MaxThreads

CtlThreads == {"c1", "c2"}

IdleCtl == [pc |-> "idle", state |-> None, then |-> "idle"]

\* the workspaces posted in the threads model: one environment without layers
ThreadStates ==
    {[environments |-> << FadeEnv("E1", p) >>, crossfade_duration |-> 0] :
        p \in PlayStates}

ThreadInit ==
    /\ MixerInit
    /\ now = 0
    /\ current_instance = None
    /\ config_file = DefaultConfig
    /\ last_compare = None
    /\ audio_pc = [a \in AudioThreads |-> "idle"]
    /\ ctl = [c \in CtlThreads |-> IdleCtl]
    /\ next_frame_time = 0
    /\ buffer = 0
    /\ effective = None
    /\ workspace = LoadWorkspace(config_file)
    /\ response = None
    /\ request = None

\* Thread(target=self._process_audio).start(): the thread started, kept in
\* _process_thread (0 while it is None)
Spawned(a) ==
    /\ audio_pc[a] = "idle"
    /\ \A b \in AudioThreads : b < a => audio_pc[b] # "idle"
    /\ audio_pc' = [audio_pc EXCEPT ![a] = "check"]
    /\ process_thread' = a

\* where a request thread is once compare_workspaces has chosen its call
AfterCompare(cmp) ==
    IF cmp.todo = "none" THEN IdleCtl
    ELSE [pc |-> cmp.todo, state |-> cmp.state, then |-> "idle"]

\* update_workspace on a request thread, up to the call of the mixer at the
\* end of compare_workspaces, for a workspace of posted
ThreadPostOf(c, posted) ==
    /\ ctl[c].pc = "idle"
    /\ \E new \in posted :
          /\ config_file' = Saved(new)
          /\ Observed(CurrentState(app_state, config_file),
                      CompareWorkspaces(CurrentState(app_state, config_file), new,
                                        cached_layers, is_running, now),
                      now)
          /\ ctl' = [ctl EXCEPT ![c] =
                        AfterCompare(CompareWorkspaces(CurrentState(app_state, config_file),
                                                       new, cached_layers, is_running, now))]
    /\ UNCHANGED <<app_state, cached_layers, env_states, is_running, now, frame, lock,
                   process_thread, audio_pc>>
    /\ UNCHANGED <<next_frame_time, buffer, effective,
                   workspace, response, request>>

ThreadPost(c) == ThreadPostOf(c, ThreadStates)

\* the route play_soundboard_sound on a request thread, up to its first call
\* of the mixer: load_workspace() and the test of mixer._is_running
ThreadSoundboard(c) ==
    /\ ctl[c].pc = "idle"
    /\ ctl' = [ctl EXCEPT ![c] = [pc |-> IF ~ is_running THEN "start" ELSE "publish",
                                  state |-> config_file,
                                  then |-> "play"]]
    /\ UNCHANGED <<app_state, cached_layers, env_states, is_running, now, current_instance,
                   config_file, last_compare, frame, lock, process_thread, audio_pc>>
    /\ UNCHANGED <<next_frame_time, buffer, effective,
                   workspace, response, request>>

\* start_processing: `with self._lock`, `self._is_running = False`
StartLock(c) ==
    /\ ctl[c].pc = "start"
    /\ lock = "free"
    /\ \E a \in AudioThreads : audio_pc[a] = "idle"
    /\ lock' = c
    /\ is_running' = FALSE
    /\ ctl' = [ctl EXCEPT ![c].pc = "join"]
    /\ UNCHANGED <<app_state, cached_layers, env_states, now, current_instance,
                   config_file, last_compare, frame, process_thread, audio_pc>>
    /\ UNCHANGED <<next_frame_time, buffer, effective,
                   workspace, response, request>>

\* whether `if thread and thread.is_alive(): thread.join(timeout=1.0)` is over:
\* there is no live thread, or the second has passed because the thread waits
\* for the lock this caller holds
JoinOver ==
    \/ process_thread = 0
    \/ /\ process_thread # 0
       /\ audio_pc[process_thread] \in {"done", "wait"}

\* start_processing from the join to its end, the bot manager attached and the
\* voice client connected
StartJoined(c) ==
    /\ ctl[c].pc = "join"
    /\ JoinOver
    /\ app_state' = StartedState(ctl[c].state).app
    /\ cached_layers' = StartedState(ctl[c].state).cache
    /\ env_states' = StartedState(ctl[c].state).states
    /\ is_running' = TRUE
    /\ \E a \in AudioThreads : Spawned(a)
    /\ lock' = "free"
    /\ ctl' = [ctl EXCEPT ![c] = [IdleCtl EXCEPT !.pc = ctl[c].then]]
    /\ UNCHANGED <<now, current_instance, config_file, last_compare, frame>>
    /\ UNCHANGED <<next_frame_time, buffer, effective,
                   workspace, response, request>>

\* stop_processing: `with self._lock`, `self._is_running = False`
StopLock(c) ==
    /\ ctl[c].pc = "idle"
    /\ lock = "free"
    /\ lock' = c
    /\ is_running' = FALSE
    /\ ctl' = [ctl EXCEPT ![c].pc = "stopjoin"]
    /\ UNCHANGED <<app_state, cached_layers, env_states, now, current_instance,
                   config_file, last_compare, frame, process_thread, audio_pc,
                   next_frame_time, buffer, effective,
                   workspace, response, request>>

\* stop_processing from the join to its end
StopJoined(c) ==
    /\ ctl[c].pc = "stopjoin"
    /\ JoinOver
    /\ process_thread' = 0
    /\ app_state' = None
    /\ lock' = "free"
    /\ ctl' = [ctl EXCEPT ![c] = IdleCtl]
    /\ UNCHANGED <<cached_layers, env_states, is_running, now, current_instance,
                   config_file, last_compare, frame, audio_pc, next_frame_time, buffer,
                   effective,
                   workspace, response, request>>

\* `with mixer._lock: mixer._app_state = state`
ThreadPublish(c) ==
    /\ ctl[c].pc = "publish"
    /\ lock = "free"
    /\ app_state' = ctl[c].state
    /\ ctl' = [ctl EXCEPT ![c] = [IdleCtl EXCEPT !.pc = ctl[c].then]]
    /\ UNCHANGED <<cached_layers, env_states, is_running, now, current_instance,
                   config_file, last_compare, frame, lock, process_thread, audio_pc>>
    /\ UNCHANGED <<next_frame_time, buffer, effective,
                   workspace, response, request>>

\* the Layer play_soundboard_sound builds for a sound
SoundboardLayer(sound_id) ==
    [id |-> "soundboard",
     chance |-> RollDen,
     cooldown_cycles |-> NoValue,
     loop_length_ms |-> NoValue,
     weight |-> 1,
     mode |-> "SINGLE",
     selected_sound_index |-> 0,
     sounds |-> << [id |-> "s1", file_id |-> sound_id] >>]

\* the runtime of a soundboard sound, forced to play once from its start
ForcedToPlay(got) ==
    [got.cache EXCEPT ![got.key] =
        [got.cache[got.key] EXCEPT !.should_play = TRUE,
                                   !.position = 0,
                                   !.audio_position = 0,
                                   !.is_finished = FALSE]]

\* whether AudioMixer.play_soundboard_sound(sound_id) returns or raises before
\* it has loaded the sound: there is no snapshot, the sound is cached already,
\* or the snapshot has no environment and the temporary Environment is built
\* with a keyword the class does not have
PlayReturnsEarly(app, cache, sound_id) ==
    \/ app = None
    \/ <<"soundboard", sound_id>> \in DOMAIN cache
    \/ Len(app.environments) = 0
    \/ ~ FileExists(sound_id)

\* AudioMixer.play_soundboard_sound(sound_id), the bot manager attached
ThreadPlay(c) ==
    /\ ctl[c].pc = "play"
    /\ lock = "free"
    /\ ctl' = [ctl EXCEPT ![c] = IdleCtl]
    /\ \E sound_id \in {"f1"} :
          IF PlayReturnsEarly(app_state, cached_layers, sound_id)
          THEN UNCHANGED <<cached_layers, is_running, process_thread, audio_pc>>
          ELSE /\ cached_layers' =
                     ForcedToPlay(GetOrLoadLayer(cached_layers, sound_id,
                                                 SoundboardLayer(sound_id)))
               /\ IF ~ is_running
                  THEN /\ is_running' = TRUE
                       /\ \E a \in AudioThreads : Spawned(a)
                  ELSE UNCHANGED <<is_running, process_thread, audio_pc>>
    /\ UNCHANGED <<app_state, env_states, now, current_instance, config_file,
                   last_compare, frame, lock>>
    /\ UNCHANGED <<next_frame_time, buffer, effective,
                   workspace, response, request>>

\* `while self._is_running` of _process_audio
AudioCheck(a) ==
    /\ audio_pc[a] \in {"check", "stopped"}
    /\ audio_pc' = [audio_pc EXCEPT ![a] = IF is_running THEN "wait" ELSE "done"]
    /\ UNCHANGED <<app_state, cached_layers, env_states, is_running, now, current_instance,
                   config_file, last_compare, frame, lock, process_thread, ctl>>
    /\ UNCHANGED <<next_frame_time, buffer, effective,
                   workspace, response, request>>

\* what an iteration of thread a leaves behind, and where the thread is: at
\* the `continue` of the self-stop or at the end of the body
AudioLeave(a, it) ==
    /\ LeaveIteration(it)
    /\ audio_pc' = [audio_pc EXCEPT ![a] = IF it.stop THEN "stopped" ELSE "check"]

\* the body of the loop of _process_audio under the lock, the voice client
\* connected and the transport's buffer not full
AudioFrame(a) ==
    /\ audio_pc[a] = "wait"
    /\ lock = "free"
    /\ IF app_state = None
       THEN /\ audio_pc' = [audio_pc EXCEPT ![a] = "check"]
            /\ UNCHANGED <<app_state, cached_layers, env_states, is_running, frame>>
       ELSE \E rollsOf \in RollsOf :
               AudioLeave(a, LoopIteration(app_state, cached_layers, env_states, now,
                                           rollsOf))
    /\ UNCHANGED <<now, current_instance, config_file, last_compare, lock,
                   process_thread, ctl>>
    /\ UNCHANGED <<next_frame_time, buffer, effective,
                   workspace, response, request>>

ThreadNext ==
    \/ \E c \in CtlThreads :
          \/ ThreadPost(c)
          \/ ThreadSoundboard(c)
          \/ StartLock(c)
          \/ StartJoined(c)
          \/ ThreadPublish(c)
          \/ ThreadPlay(c)
    \/ \E a \in AudioThreads : AudioCheck(a) \/ AudioFrame(a)

ThreadSpec == ThreadInit /\ [][ThreadNext]_vars

\* every thread that can take a step is scheduled; requests need not arrive
ThreadFairSpec ==
    /\ ThreadSpec
    /\ \A a \in AudioThreads : WF_vars(AudioCheck(a)) /\ WF_vars(AudioFrame(a))
    /\ \A c \in CtlThreads :
          /\ WF_vars(StartLock(c))
          /\ WF_vars(StartJoined(c))
          /\ WF_vars(ThreadPublish(c))
          /\ WF_vars(ThreadPlay(c))

----------------------------------------------------------------------------
(* Claims about threads, checked under ThreadSpec *)

\* the threads in the body of the loop of _process_audio
InLoop == {a \in AudioThreads : audio_pc[a] = "wait"}

\* C10: at any time at most one thread is executing the mixer loop
\* (_process_audio), whatever the interleaving of start_processing,
\* play_soundboard_sound, compare_workspaces and the loop's own self-stop.
C10_OneAudioThread == Cardinality(InLoop) <= 1

----------------------------------------------------------------------------
(* Transport: discord_bot/src/audio.py, the buffer as its length in bytes *)

\* PCMStreamSource.add_audio, the stream active
AddAudio(buf, length) ==
    IF buf < FRAME_LENGTH * MAX_BUFFER_FRAMES THEN buf + length ELSE buf

\* what PCMStreamSource.read leaves in the buffer: a whole frame is taken, a
\* partial one is padded and the buffer cleared
Read(buf) == IF buf >= FRAME_LENGTH THEN buf - FRAME_LENGTH ELSE 0

\* AudioManager.get_buffer_size
GetBufferSize(buf) == buf \div FRAME_LENGTH

BufferFullStrict(buf) == GetBufferSize(buf) > target_buffer_chunks

\* `if buffer_size and buffer_size >= self.target_buffer_chunks`
BufferFull(buf) == GetBufferSize(buf) >= target_buffer_chunks

\* queue_audio for the frame of an iteration, the voice client connected
Queued(buf, f) == IF f.submitted THEN AddAudio(buf, f.bytes) ELSE buf

----------------------------------------------------------------------------
(* Mixer lifecycle: one environment with one layer, posted playing or
   stopped; soundboard sounds; the transport's buffer; stop_processing; an
   exception in the loop.  Requests and loop iterations do not interleave
   here: each runs to its end. *)

LifeLayerChoice ==
    [file_id |-> "f1", chance |-> RollDen, cooldown |-> 0, loop_ms |-> CHUNK_MS,
     weight |-> 1]

LifeEnv(play_state, count) ==
    [SchedEnv(LifeLayerChoice, LifeLayerChoice, count, 1, "base")
        EXCEPT !.play_state = play_state]

\* the draws of an iteration in the lifecycle model: every layer has chance 1,
\* so that no draw changes what plays, and the highest is taken
LifeRolls ==
    {r \in RollsOf : \A l, m \in LayerIds : r[l].chance[m] = RollDen - 1}

\* the workspaces posted in the lifecycle model
LifeStates ==
    {[environments |-> << LifeEnv(p, 1) >>, crossfade_duration |-> 0] :
        p \in PlayStates}

\* next_frame_time = time.time_ns() at the start of _process_audio
ThreadStarted ==
    next_frame_time' = IF is_running' /\ ~ is_running THEN now ELSE next_frame_time

\* POST /workspace
LifePost ==
    /\ \E new \in LifeStates : UpdateWorkspace(new)
    /\ ThreadStarted
    /\ UNCHANGED <<now, frame, lock, process_thread, audio_pc, ctl, buffer,
                   effective,
                   workspace, response, request>>

\* the cache after AudioMixer.play_soundboard_sound(sound_id)
PlayedSound(app, cache, sound_id) ==
    IF PlayReturnsEarly(app, cache, sound_id) THEN cache
    ELSE ForcedToPlay(GetOrLoadLayer(cache, sound_id, SoundboardLayer(sound_id)))

\* POST /soundboard/play/<sound_id>: the workspace is loaded and started or
\* published, then the sound is played
LifeBoard ==
    /\ \E sound_id \in {"f1"} :
          IF ~ is_running
          THEN /\ app_state' = StartedState(config_file).app
               /\ env_states' = StartedState(config_file).states
               /\ cached_layers' = PlayedSound(StartedState(config_file).app,
                                               StartedState(config_file).cache, sound_id)
          ELSE /\ app_state' = config_file
               /\ env_states' = env_states
               /\ cached_layers' = PlayedSound(config_file, cached_layers, sound_id)
    /\ is_running' = TRUE
    /\ ThreadStarted
    /\ UNCHANGED <<now, current_instance, config_file, last_compare, frame, lock,
                   process_thread, audio_pc, ctl, buffer, effective,
                   workspace, response, request>>

\* the loop of _process_audio is at an iteration that gets past the app_state
\* and connection checks
AtIteration ==
    /\ is_running
    /\ app_state # None
    /\ now >= next_frame_time
    /\ \A k \in DOMAIN cached_layers : cached_layers[k].cycle < MaxCycles

\* (mutant) the frames the loop is behind are not skipped
CaughtUpNever(nft, t) == nft

\* next_frame_time once the frames the loop is behind at time t are skipped:
\* frames_behind = (current_time_ns - next_frame_time) // frame_time_ns
CaughtUp(nft, t) == nft + CHUNK_MS * ((t - nft) \div CHUNK_MS)

\* time passes by one frame period
LifeTick ==
    /\ now < MaxFrames * CHUNK_MS
    /\ now' = now + CHUNK_MS
    /\ UNCHANGED <<app_state, cached_layers, env_states, is_running, current_instance,
                   config_file, last_compare, frame, lock, process_thread, audio_pc,
                   ctl, next_frame_time, buffer, effective,
                   workspace, response, request>>

\* one iteration of the loop, the transport's buffer not full
LifeFrame ==
    /\ AtIteration
    /\ ~ BufferFull(buffer)
    /\ \E rollsOf \in LifeRolls :
          LeaveIteration(LoopIteration(app_state, cached_layers, env_states, now, rollsOf))
    /\ buffer' = Queued(buffer, frame')
    /\ next_frame_time' = CaughtUp(next_frame_time, now) + CHUNK_MS
    /\ UNCHANGED <<now, current_instance, config_file, last_compare, lock,
                   process_thread, audio_pc, ctl, effective,
                   workspace, response, request>>

\* one iteration of the loop, the transport's buffer full
LifeBufferFull ==
    /\ AtIteration
    /\ BufferFull(buffer)
    /\ frame' = NoFrame
    /\ next_frame_time' = CaughtUp(next_frame_time, now) + CHUNK_MS
    /\ UNCHANGED <<app_state, cached_layers, env_states, is_running, now,
                   current_instance, config_file, last_compare, lock, process_thread,
                   audio_pc, ctl, buffer, effective,
                   workspace, response, request>>

\* the voice client's player reads a frame
TransportRead ==
    /\ buffer > 0
    /\ buffer' = Read(buffer)
    /\ UNCHANGED <<app_state, cached_layers, env_states, is_running, now,
                   current_instance, config_file, last_compare, frame, lock,
                   process_thread, audio_pc, ctl, next_frame_time, effective,
                   workspace, response, request>>

\* what an iteration leaves behind when an exception escapes it after the
\* layers were mixed (from _apply_filters, say): `except Exception` of
\* _process_audio sets _is_running = False, no frame is queued
LeaveRaised(it) ==
    /\ app_state' = it.app
    /\ cached_layers' = it.cache
    /\ env_states' = it.states
    /\ is_running' = FALSE
    /\ frame' = [NoFrame EXCEPT !.raised = TRUE]

\* an iteration an exception escapes from: before anything was mixed (from
\* get_buffer_size while the bot manager has no audio manager yet, say), or
\* after
LifeRaise ==
    /\ AtIteration
    /\ \/ /\ is_running' = FALSE
          /\ frame' = [NoFrame EXCEPT !.raised = TRUE]
          /\ UNCHANGED <<app_state, cached_layers, env_states>>
       \/ \E rollsOf \in LifeRolls :
             LeaveRaised(LoopIteration(app_state, cached_layers, env_states, now, rollsOf))
    /\ UNCHANGED <<now, current_instance, config_file, last_compare, lock,
                   process_thread, audio_pc, ctl, next_frame_time, buffer,
                   effective,
                   workspace, response, request>>

\* AudioMixer.stop_processing
LifeStop ==
    /\ is_running' = FALSE
    /\ process_thread' = 0
    /\ app_state' = None
    /\ UNCHANGED <<cached_layers, env_states, now, current_instance, config_file,
                   last_compare, frame, lock, audio_pc, ctl, next_frame_time, buffer,
                   effective,
                   workspace, response, request>>

LifeNext ==
    \/ LifePost
    \/ LifeBoard
    \/ LifeFrame
    \/ LifeBufferFull
    \/ TransportRead
    \/ LifeRaise
    \/ LifeStop
    \/ LifeTick

LifeSpec == SchedInit /\ [][LifeNext]_vars

----------------------------------------------------------------------------
(* stop_processing beside the requests and the loop: the threads model with
   a layer to play and without the soundboard *)

\* the workspaces posted: one playing environment, without layers or with one
StopStates ==
    {[environments |-> << FadeEnv("E1", "PLAYING") >>, crossfade_duration |-> 0],
     [environments |-> << LifeEnv("PLAYING", 1) >>, crossfade_duration |-> 0]}

StopPost(c) == ThreadPostOf(c, StopStates)

\* an iteration of the loop on thread a
StopFrame(a) ==
    /\ \A k \in DOMAIN cached_layers : cached_layers[k].cycle < MaxStopCycles
    /\ AudioFrame(a)

StopNext ==
    \/ \E c \in CtlThreads :
          \/ StopPost(c)
          \/ StartLock(c)
          \/ StartJoined(c)
          \/ ThreadPublish(c)
          \/ StopLock(c)
          \/ StopJoined(c)
    \/ \E a \in AudioThreads : AudioCheck(a) \/ StopFrame(a)

StopSpec == ThreadInit /\ [][StopNext]_vars

----------------------------------------------------------------------------
(* Claims about the mixer lifecycle, checked under LifeSpec *)

\* the soundboard runtimes the loop counts as active
ActiveSounds == SoundboardLayers(cached_layers)

\* C11: the frames the loop submits while the runtime play_soundboard_sound
\* created is unfinished include the one-shot's samples: get_next_chunk was
\* called for it and what it copied is in the mix.
C11_SoundInFrame ==
    [][(frame'.submitted /\ next_frame_time' # next_frame_time /\ ActiveSounds # {})
       => /\ "soundboard" \in frame'.called
          /\ frame'.copied["soundboard"] > 0]_vars

\* C12: after play_soundboard_sound has created the runtime keyed
\* soundboard_{sound_id}, the one-shot eventually finishes and its runtime is
\* removed from the cache.
C12_SoundRemoved ==
    (<<"soundboard", "f1">> \in DOMAIN cached_layers)
        ~> (<<"soundboard", "f1">> \notin DOMAIN cached_layers)

\* an iteration of the loop is taken while the transport reports at least
\* target_buffer_chunks buffered frames
FullIteration ==
    /\ is_running
    /\ next_frame_time' # next_frame_time
    /\ GetBufferSize(buffer) >= target_buffer_chunks

\* C14 as stated: when the transport reports buffered frames >=
\* target_buffer_chunks, the iteration submits no frame, advances
\* next_frame_time by one frame period, and leaves every layer runtime
\* unchanged.
C14_BufferFullOnePeriod ==
    [][FullIteration
          => /\ ~ frame'.submitted
             /\ next_frame_time' = next_frame_time + CHUNK_MS
             /\ cached_layers' = cached_layers]_vars

\* C14, amended: when the transport reports buffered frames >=
\* target_buffer_chunks, the iteration submits no frame, advances
\* next_frame_time by one frame period beyond the frames it skipped to catch
\* up with the clock, and leaves every layer runtime's position, cooldown
\* state and play decision unchanged.
C14_BufferFullSkips ==
    [][FullIteration
          => /\ ~ frame'.submitted
             /\ buffer' = buffer
             /\ next_frame_time' = CaughtUp(next_frame_time, now) + CHUNK_MS
             /\ cached_layers' = cached_layers]_vars

\* the loop has just skipped a frame because the buffer was full
C14_Witness ==
    /\ is_running
    /\ frame = NoFrame
    /\ GetBufferSize(buffer) >= target_buffer_chunks
    /\ next_frame_time = now + CHUNK_MS
    /\ cached_layers # EmptyCache

\* C15: every frame the mixer submits to the transport has byte length exactly
\* chunk_samples * 2 * 2, which is exactly one transport frame
\* (PCMStreamSource.FRAME_LENGTH), so the transport's buffered-frame count
\* counts whole mixer frames.
C15_WholeFrames ==
    /\ frame.submitted => /\ frame.bytes = chunk_samples * 2 * 2
                          /\ frame.bytes = FRAME_LENGTH
    /\ GetBufferSize(buffer) * FRAME_LENGTH = buffer

\* C17: if an exception escapes an iteration of the mixer loop, the loop
\* terminates with is_running = false, and the next reconcile whose new state
\* has a playing (or fading) environment starts a new audio thread.
C17_RestartAfterRaise ==
    [][/\ (frame'.raised /\ frame' # frame) => ~ is_running'
       /\ (frame.raised /\ ~ is_running /\ last_compare' # last_compare
              /\ ShouldPlay(current_instance', now))
             => (is_running' /\ next_frame_time' = now)]_vars

\* a frame has been submitted and the transport holds several
C15_Witness ==
    /\ frame.submitted
    /\ GetBufferSize(buffer) >= 2

----------------------------------------------------------------------------
(* Claims about the end of the loop, checked under ThreadSpec and StopSpec *)

\* nothing of the mixer's snapshot is to be heard: no environment is PLAYING
\* or fading and no soundboard runtime is active
NothingActive ==
    /\ app_state # None
    /\ ~ ShouldPlay(app_state, now)
    /\ SoundboardLayers(cached_layers) = {}

\* C13: once no environment is PLAYING or fading and no soundboard runtime is
\* active, the next iteration of the loop that passes the transport checks sets
\* is_running = false without submitting a frame, and the thread that ran it
\* exits: its next test of the loop condition ends _process_audio.
C13_SelfStopExits ==
    [][\A a \in AudioThreads :
          /\ (audio_pc[a] = "wait" /\ audio_pc'[a] # "wait" /\ NothingActive)
                => (~ is_running' /\ ~ frame'.submitted /\ audio_pc'[a] = "stopped")
          /\ (audio_pc[a] = "stopped" /\ audio_pc'[a] # "stopped")
                => audio_pc'[a] = "done"]_vars

\* stop_processing has returned and processing was not started again:
\* _process_thread is None after a thread had been started
StopReturned ==
    /\ process_thread = 0
    /\ \E a \in AudioThreads : audio_pc[a] # "idle"

\* C16: after stop_processing returns, is_running is false and, unless
\* processing is started again, the audio thread submits no further frame to
\* the transport (and eventually exits; the formula states the claim up to
\* there).
C16_NoFrameAfterStop ==
    [][/\ (process_thread # 0 /\ process_thread' = 0) => ~ is_running'
       /\ (StopReturned /\ process_thread' = 0)
             => /\ ~ is_running'
                /\ \A a \in AudioThreads :
                      (audio_pc[a] = "wait" /\ audio_pc'[a] # "wait"
                                            /\ app_state # None)
                          => ~ frame'.submitted]_vars

----------------------------------------------------------------------------
(* Effective values: audio.py and effective.py.  A volume or a frequency is an
   integer like every other value here; an override that is absent is NoValue. *)

PresetSoundHits(pl, sound) ==
    {i \in 1..Len(pl.sounds) : pl.sounds[i].id = sound.id}

\* LayerSound._get_preset_sound for the preset layer pl
PresetSoundOf(pl, sound) ==
    IF pl = None THEN None
    ELSE IF PresetSoundHits(pl, sound) = {} THEN None
    ELSE pl.sounds[First(PresetSoundHits(pl, sound))]

\* the value of a field of a sound: the preset sound's if it has one
VolumeOver(ps, sound) ==
    IF ps # None /\ ps.volume # NoValue THEN ps.volume ELSE sound.volume

FrequencyOver(ps, sound) ==
    IF ps # None /\ ps.frequency # NoValue THEN ps.frequency ELSE sound.frequency

\* LayerSound.effective_frequency
EffectiveFrequency(env, layer, sound) ==
    FrequencyOver(PresetSoundOf(GetActivePresetLayer(env, layer), sound), sound)

\* EffectiveLayerSound.from_layer_sound(sound, preset_sound)
FromLayerSound(sound, ps) ==
    [id |-> sound.id, frequency |-> FrequencyOver(ps, sound),
     volume |-> VolumeOver(ps, sound)]

\* preset_sounds.get(sound.id) of from_layer: of two preset sounds with one
\* id the dict keeps the later
PresetSoundsGet(pl, sound) ==
    IF PresetSoundHits(pl, sound) = {} THEN None
    ELSE pl.sounds[CHOOSE i \in PresetSoundHits(pl, sound) :
                      \A j \in PresetSoundHits(pl, sound) : j <= i]

\* EffectiveLayer.from_layer(layer, preset_layer)
FromLayer(layer, pl) ==
    [id |-> layer.id,
     chance |-> ChanceOver(pl, layer),
     cooldown_cycles |-> CooldownOver(pl, layer),
     weight |-> WeightOver(pl, layer),
     sounds |-> [i \in 1..Len(layer.sounds) |->
                    FromLayerSound(layer.sounds[i],
                                   IF pl = None THEN None
                                   ELSE PresetSoundsGet(pl, layer.sounds[i]))]]

\* the effective values of an environment's first layer and its first sound:
\* the properties of audio.py and the EffectiveLayer of effective.py
EffectiveValues(env) ==
    [max_weight |-> EffectiveMaxWeight(env),
     weight |-> EffectiveWeight(env, env.layers[1]),
     chance |-> EffectiveChance(env, env.layers[1]),
     cooldown_cycles |-> EffectiveCooldownCycles(env, env.layers[1]),
     frequency |-> EffectiveFrequency(env, env.layers[1], env.layers[1].sounds[1]),
     layer |-> FromLayer(env.layers[1], GetActivePresetLayer(env, env.layers[1]))]

\* an override: absent, or a value from 0 on
Overrides == {NoValue} \cup 0..MaxOverride

\* the overrides of one preset
OverrideChoices ==
    [max_weight : Overrides, weight : Overrides, chance : Overrides,
     cooldown_cycles : Overrides, volume : Overrides, frequency : Overrides]

\* how far the preset reaches: there is none, it is not the active one, it is
\* active without the layer, with the layer but not the sound, or with both
Reaches == {"none", "inactive", "preset", "layer", "sound"}

EffPresetLayer(reach, o) ==
    [id |-> IF reach = "preset" THEN "Z" ELSE "A",
     weight |-> o.weight, chance |-> o.chance, cooldown_cycles |-> o.cooldown_cycles,
     sounds |-> << [id |-> IF reach = "sound" THEN "s1" ELSE "s9", file_id |-> "f1",
                    volume |-> o.volume, frequency |-> o.frequency] >>]

\* an environment with one layer of one sound, every base value BaseValue
EffEnv(reach, o) ==
    [id |-> "E1",
     max_weight |-> BaseValue,
     layers |-> << [id |-> "A", chance |-> BaseValue, cooldown_cycles |-> BaseValue,
                    loop_length_ms |-> NoValue, weight |-> BaseValue, mode |-> "SINGLE",
                    selected_sound_index |-> 0,
                    sounds |-> << [id |-> "s1", file_id |-> "f1", volume |-> BaseValue,
                                   frequency |-> BaseValue] >>] >>,
     presets |-> IF reach = "none" THEN << >>
                 ELSE << [id |-> "p1", max_weight |-> o.max_weight,
                          layers |-> << EffPresetLayer(reach, o) >>] >>,
     active_preset_id |-> IF reach \in {"none", "inactive"} THEN "" ELSE "p1",
     play_state |-> "STOPPED",
     fade_start_time |-> NoValue,
     fade_end_time |-> NoValue]

EffState(reach, o) ==
    [environments |-> << EffEnv(reach, o) >>, crossfade_duration |-> 0]

\* a workspace has been loaded, the mixer not started
EffInit ==
    /\ MixerInit
    /\ now = 0
    /\ \E reach \in Reaches, o \in OverrideChoices :
          current_instance = EffState(reach, o)
    /\ config_file = DefaultConfig
    /\ last_compare = None
    /\ audio_pc = NoThreads
    /\ ctl = NoThreads
    /\ next_frame_time = 0
    /\ buffer = 0
    /\ effective = None
    /\ workspace = LoadWorkspace(config_file)
    /\ response = None
    /\ request = None

\* the effective values of the loaded workspace are computed
EffEvaluate ==
    /\ effective = None
    /\ effective' = EffectiveValues(current_instance.environments[1])
    /\ UNCHANGED <<app_state, cached_layers, env_states, is_running, now,
                   current_instance, config_file, last_compare, frame, lock,
                   process_thread, audio_pc, ctl, next_frame_time, buffer,
                   workspace, response, request>>

EffSpec == EffInit /\ [][EffEvaluate]_vars

\* the override if it is present and the preset reaches, the base value if not
Overridden(over, reaching) ==
    IF reaching /\ over # NoValue THEN over ELSE BaseValue

\* the effective values the claim gives for a preset of the given reach
Expected(reach, o) ==
    [max_weight |-> Overridden(o.max_weight, reach \in {"preset", "layer", "sound"}),
     weight |-> Overridden(o.weight, reach \in {"layer", "sound"}),
     chance |-> Overridden(o.chance, reach \in {"layer", "sound"}),
     cooldown_cycles |-> Overridden(o.cooldown_cycles, reach \in {"layer", "sound"}),
     frequency |-> Overridden(o.frequency, reach = "sound"),
     layer |-> [id |-> "A",
                chance |-> Overridden(o.chance, reach \in {"layer", "sound"}),
                cooldown_cycles |->
                    Overridden(o.cooldown_cycles, reach \in {"layer", "sound"}),
                weight |-> Overridden(o.weight, reach \in {"layer", "sound"}),
                sounds |-> << [id |-> "s1",
                               frequency |-> Overridden(o.frequency, reach = "sound"),
                               volume |-> Overridden(o.volume, reach = "sound")] >>]]

\* C18: for a layer's chance, weight and cooldown_cycles, a sound's volume and
\* frequency, and an environment's max_weight, the effective value equals the
\* active preset's override whenever that override is present (including an
\* override of 0) and equals the base value otherwise (no active preset, no
\* matching preset layer or sound, or override absent).
C18_EffectiveValues ==
    effective # None =>
        \A reach \in Reaches, o \in OverrideChoices :
            current_instance = EffState(reach, o) => effective = Expected(reach, o)

\* the values were computed under an active preset that overrides the chance
\* and the volume with 0 and leaves the weight alone
C18_Witness ==
    /\ effective # None
    /\ \E o \in OverrideChoices :
          /\ o.chance = 0 /\ o.volume = 0 /\ o.weight = NoValue
          /\ current_instance = EffState("sound", o)
          /\ effective.chance = 0
          /\ effective.layer.sounds[1].volume = 0
          /\ effective.weight = BaseValue

----------------------------------------------------------------------------
(* Per-sound volume and fade: audio.py, layer_info.py, mixer.py.  A volume is
   an integer number of hundredths; the layer's own volume is 1, there is no
   preset and normalization is off. *)

\* LayerSound.effective_volume
EffectiveVolume(sound) == sound.volume

\* LayerSound.effective_volume_including_fade at time t
EffectiveVolumeIncludingFade(sound, t) ==
    IF \/ sound.fade_start_time = NoValue
       \/ sound.fade_end_time = NoValue
       \/ sound.fade_volume_start = NoValue
    THEN EffectiveVolume(sound)
    ELSE IF t < sound.fade_start_time THEN sound.fade_volume_start
    ELSE IF t >= sound.fade_end_time THEN EffectiveVolume(sound)
    ELSE sound.fade_volume_start
            + ((sound.fade_volume_end - sound.fade_volume_start)
                    * (t - sound.fade_start_time))
                 \div (sound.fade_end_time - sound.fade_start_time)

\* LayerSound.start_fade_in(volume_start) at time t
StartFadeIn(sound, volume_start, fade_in_duration, t) ==
    [sound EXCEPT !.fade_start_time = t,
                  !.fade_end_time = t + fade_in_duration,
                  !.fade_volume_start = volume_start,
                  !.fade_volume_end = EffectiveVolume(sound)]

\* "Check if volume has changed for active sound" of compare_workspaces, for
\* one layer of new_env
VolumeFaded(prev_env, new_layer, fade_in_duration, t) ==
    IF \/ PrevLayer(prev_env, new_layer.id) = None
       \/ Len(new_layer.sounds) = 0
       \/ Len(PrevLayer(prev_env, new_layer.id).sounds) = 0
       \/ BadIndex(new_layer)
       \/ BadIndex(PrevLayer(prev_env, new_layer.id))
    THEN new_layer
    ELSE IF EffectiveVolume(new_layer.sounds[new_layer.selected_sound_index + 1])
              = EffectiveVolume(PrevLayer(prev_env, new_layer.id).sounds[
                    PrevLayer(prev_env, new_layer.id).selected_sound_index + 1])
    THEN new_layer
    ELSE [new_layer EXCEPT !.sounds[new_layer.selected_sound_index + 1] =
            StartFadeIn(@, EffectiveVolume(
                               PrevLayer(prev_env, new_layer.id).sounds[
                                   PrevLayer(prev_env, new_layer.id).selected_sound_index
                                       + 1]),
                        fade_in_duration, t)]

\* new_state after the layer-level volume transitions of compare_workspaces
SoundFaded(prev, new, t) ==
    IF prev = None THEN new
    ELSE [new EXCEPT !.environments =
            [i \in 1..Len(new.environments) |->
                IF EnvById(prev, new.environments[i].id) = None THEN new.environments[i]
                ELSE [new.environments[i] EXCEPT !.layers =
                        [l \in 1..Len(new.environments[i].layers) |->
                            VolumeFaded(EnvById(prev, new.environments[i].id),
                                        new.environments[i].layers[l],
                                        new.fade_in_duration, t)]]]]

\* compare_workspaces with the sounds' volumes looked at
SoundsCompared(prev, cmp, t) == [cmp EXCEPT !.state = SoundFaded(prev, cmp.state, t)]

\* LayerInfo.volume
Volume(rt, layer) == EffectiveVolume(layer.sounds[rt.active_sound_index + 1])

\* the gain get_next_chunk puts on the chunk it returns: "Apply volume if
\* we're playing"
ChunkGain(rt, layer) == IF rt.should_play THEN Volume(rt, layer) ELSE UnitVolume

\* the gain of the mix step on a layer's chunk: `env_mix += chunk`
MixGain == UnitVolume

\* what an iteration did to the chunk of the first layer of the first
\* environment, if it accumulated one with samples in it: the gain it got and
\* the active sound's effective_volume_including_fade at that time
Gains(app, cache, f, t) ==
    IF \/ Len(app.environments) = 0
       \/ Len(app.environments[1].layers) = 0
    THEN None
    ELSE IF \/ app.environments[1].layers[1].id \notin f.called
            \/ f.copied[app.environments[1].layers[1].id] = 0
    THEN None
    ELSE [gain |-> (ChunkGain(cache[CHOOSE k \in KeysOfLayer(cache, "A") : TRUE],
                              app.environments[1].layers[1]) * MixGain)
                       \div UnitVolume,
          including |->
              EffectiveVolumeIncludingFade(
                  app.environments[1].layers[1].sounds[
                      cache[CHOOSE k \in KeysOfLayer(cache, "A") : TRUE].active_sound_index
                          + 1], t)]

Volumes == {UnitVolume \div 2, UnitVolume}

GainEnv(play_state, volume) ==
    [LifeEnv(play_state, 1) EXCEPT !.layers[1].sounds[1] =
        [id |-> "s1", file_id |-> "f1", volume |-> volume,
         fade_start_time |-> NoValue, fade_end_time |-> NoValue,
         fade_volume_start |-> NoValue, fade_volume_end |-> NoValue]]

\* the workspaces posted: one environment, one layer, one sound
GainStates ==
    {[environments |-> << GainEnv(p, v) >>, crossfade_duration |-> 0,
      fade_in_duration |-> d] :
        p \in PlayStates, v \in Volumes, d \in {0, FadeInMs}}

\* POST /workspace
GainPost ==
    /\ \E new \in GainStates :
          /\ config_file' = Saved(new)
          /\ Reconciled(CurrentState(app_state, config_file),
                        SoundsCompared(CurrentState(app_state, config_file),
                                       CompareWorkspaces(
                                           CurrentState(app_state, config_file), new,
                                           cached_layers, is_running, now),
                                       now),
                        now)
    /\ ThreadStarted
    /\ UNCHANGED <<now, frame, lock, process_thread, audio_pc, ctl, buffer, effective,
                   workspace, response, request>>

\* one iteration of the loop, the transport's buffer not full
GainFrame ==
    /\ AtIteration
    /\ ~ BufferFull(buffer)
    /\ \E rollsOf \in LifeRolls :
          LeaveIteration(LoopIteration(app_state, cached_layers, env_states, now, rollsOf))
    /\ buffer' = Queued(buffer, frame')
    /\ next_frame_time' = CaughtUp(next_frame_time, now) + CHUNK_MS
    /\ effective' = Gains(app_state', cached_layers', frame', now)
    /\ UNCHANGED <<now, current_instance, config_file, last_compare, lock,
                   process_thread, audio_pc, ctl,
                   workspace, response, request>>

GainNext == GainPost \/ GainFrame \/ TransportRead \/ LifeTick

GainSpec == SchedInit /\ [][GainNext]_vars

\* C19: for every layer chunk accumulated into an environment mix, the
\* per-sound fade multiplier (effective_volume_including_fade of the active
\* sound) is applied exactly once, either inside get_next_chunk or at the mix
\* step: the gain the chunk's samples got is that multiplier, not the
\* multiplier twice and not a gain without the fade.
C19_FadeAppliedOnce ==
    effective # None => effective.gain = effective.including

----------------------------------------------------------------------------
(* GET /workspace after POST /workspace: routes/workspace.py, app.py *)

\* AppState.to_dict: the serialized fields, none of the runtime ones
ToDict(app) == Saved(app)

\* the body get_workspace answers with
GetWorkspace(preloaded, config) ==
    IF preloaded # None THEN ToDict(preloaded) ELSE ToDict(Saved(config))

WebStates == StopStates \cup LifeStates

\* create_app: ensure_workspace_dir and load_workspace on the file left by an
\* earlier run of the server
WebInit ==
    /\ MixerInit
    /\ now = 0
    /\ current_instance = None
    /\ \E c \in {DefaultConfig} \cup WebStates : config_file = AllStopped(Saved(c))
    /\ last_compare = None
    /\ audio_pc = NoThreads
    /\ ctl = NoThreads
    /\ next_frame_time = 0
    /\ buffer = 0
    /\ effective = None
    /\ workspace = LoadWorkspace(config_file)
    /\ response = None
    /\ request = None

\* POST /workspace; the answer to an earlier GET is out of date
WebPost ==
    /\ \E new \in WebStates : UpdateWorkspace(new)
    /\ ThreadStarted
    /\ response' = None
    /\ UNCHANGED <<now, frame, lock, process_thread, audio_pc, ctl, buffer, effective,
                   workspace, request>>

\* GET /workspace
WebGet ==
    /\ response' = [body |-> GetWorkspace(workspace, config_file)]
    /\ UNCHANGED <<app_state, cached_layers, env_states, is_running, now,
                   current_instance, config_file, last_compare, frame, lock,
                   process_thread, audio_pc, ctl, next_frame_time, buffer, effective,
                   workspace, request>>

WebNext == WebPost \/ WebGet \/ LifeFrame \/ TransportRead \/ LifeTick

WebSpec == WebInit /\ [][WebNext]_vars

\* C20: after a successful POST /workspace with state S, a GET /workspace
\* answered before any other POST returns S.
C20_GetReturnsPosted ==
    (response # None /\ last_compare # None /\ ~ last_compare.raised)
        => response.body = ToDict(current_instance)

----------------------------------------------------------------------------
(* Preset recovery of POST /workspace: routes/workspace.py.  A null
   activePresetId is the empty string. *)

PresetIds == {"p1", "p2"}

\* a preset without overrides
EmptyPreset(id) == [id |-> id, max_weight |-> NoValue, layers |-> << >>]

PresetLists ==
    {<< >>, << EmptyPreset("p1") >>, << EmptyPreset("p2") >>,
     << EmptyPreset("p1"), EmptyPreset("p2") >>}

\* the workspaces posted: one environment without layers, its presets and
\* activePresetId as the client sends them
PresetStates ==
    {[environments |-> << [FadeEnv(id, p) EXCEPT !.presets = ps,
                                                  !.active_preset_id = a] >>,
      crossfade_duration |-> 0] :
        id \in {"E1"}, p \in PlayStates, ps \in PresetLists,
        a \in {""} \cup PresetIds}

\* next((p for p in current_env.presets if p.id == active_preset_id), None)
PresetById(env, id) == GetActivePreset([env EXCEPT !.active_preset_id = id])

RecoveredEnvKept(env, config_state) ==
    IF env.active_preset_id = "" \/ PresetHits(env) # {} THEN env
    ELSE IF config_state = None THEN env
    ELSE IF EnvById(config_state, env.id) = None THEN env
    ELSE IF PresetById(EnvById(config_state, env.id), env.active_preset_id) = None
    THEN env
    ELSE [env EXCEPT !.presets =
            Append(@, PresetById(EnvById(config_state, env.id), env.active_preset_id))]

\* the loop body of update_workspace over one environment of the posted data
RecoveredEnv(env, config_state) ==
    IF env.active_preset_id = "" \/ PresetHits(env) # {} THEN env
    ELSE IF config_state = None THEN [env EXCEPT !.active_preset_id = ""]
    ELSE IF EnvById(config_state, env.id) = None
    THEN [env EXCEPT !.active_preset_id = ""]
    ELSE IF PresetById(EnvById(config_state, env.id), env.active_preset_id) = None
    THEN [env EXCEPT !.active_preset_id = ""]
    ELSE [env EXCEPT !.presets =
            Append(@, PresetById(EnvById(config_state, env.id), env.active_preset_id))]

\* the posted data after the preset validation of update_workspace
Recovered(data, config_state) ==
    [data EXCEPT !.environments =
        [i \in 1..Len(data.environments) |->
            RecoveredEnv(data.environments[i], config_state)]]

\* POST /workspace
PresetPost ==
    /\ \E new \in PresetStates :
          /\ request' = new
          /\ UpdateWorkspace(Recovered(new, AllStopped(config_file)))
    /\ ThreadStarted
    /\ UNCHANGED <<now, frame, lock, process_thread, audio_pc, ctl, buffer, effective,
                   workspace, response>>

PresetNext == PresetPost \/ LifeFrame \/ LifeTick

PresetSpec == SchedInit /\ [][PresetNext]_vars

HasPreset(env, id) == \E k \in 1..Len(env.presets) : env.presets[k].id = id

\* the environment is in the persisted copy and has the preset there
Persisted(config, env_id, id) ==
    /\ EnvById(config, env_id) # None
    /\ HasPreset(EnvById(config, env_id), id)

\* C21: after POST /workspace has processed an update, every environment of
\* the resulting AppState has an activePresetId that is null or the id of one
\* of its presets: an id the posted list has is kept, an orphaned id is kept
\* and its preset recovered when the persisted copy has the preset, and is
\* set to null otherwise; the request does not fail.
C21_OrphanRecovered ==
    [][(\/ request' # request
        \/ current_instance' # current_instance
        \/ config_file' # config_file
        \/ last_compare' # last_compare)
       => /\ ~ last_compare'.raised
          /\ Len(current_instance'.environments) = Len(request'.environments)
          /\ \A i \in 1..Len(request'.environments) :
                /\ \/ current_instance'.environments[i].active_preset_id = ""
                   \/ HasPreset(current_instance'.environments[i],
                                current_instance'.environments[i].active_preset_id)
                /\ current_instance'.environments[i].active_preset_id =
                      IF \/ request'.environments[i].active_preset_id = ""
                         \/ HasPreset(request'.environments[i],
                                      request'.environments[i].active_preset_id)
                         \/ Persisted(config_file, request'.environments[i].id,
                                      request'.environments[i].active_preset_id)
                      THEN request'.environments[i].active_preset_id
                      ELSE ""]_vars

\* an orphaned p2 was posted, the persisted copy had p2 and not p1, and the
\* resulting environment has p2 back
C21_Witness ==
    /\ request # None
    /\ request.environments[1].active_preset_id = "p2"
    /\ ~ HasPreset(request.environments[1], "p2")
    /\ current_instance.environments[1].active_preset_id = "p2"
    /\ HasPreset(current_instance.environments[1], "p2")
    /\ ~ HasPreset(current_instance.environments[1], "p1")

----------------------------------------------------------------------------
(* Snapshot swaps while the loop runs: one environment, posted playing or
   stopped, without layers or with one layer of either loop length.  Requests
   and loop iterations run to their ends; several requests may arrive between
   two iterations. *)

SwapLoopsMs == {CHUNK_MS \div 2, (3 * CHUNK_MS) \div 2}

SwapEnv(play_state, count, loop_ms) ==
    [SchedEnv([LifeLayerChoice EXCEPT !.loop_ms = loop_ms], LifeLayerChoice, count, 1,
              "base")
        EXCEPT !.play_state = play_state]

\* the workspaces posted
SwapStates ==
    {[environments |-> << SwapEnv(p, c, lp) >>, crossfade_duration |-> 0] :
        p \in PlayStates, c \in 0..1, lp \in SwapLoopsMs}

\* POST /workspace
SwapPost ==
    /\ \E new \in SwapStates : UpdateWorkspace(new)
    /\ ThreadStarted
    /\ UNCHANGED <<now, frame, lock, process_thread, audio_pc, ctl, buffer, effective,
                   workspace, response, request>>

SwapNext == SwapPost \/ LifeFrame \/ TransportRead \/ LifeTick

SwapSpec == SchedInit /\ [][SwapNext]_vars

\* the step is an iteration of the loop that mixes
MixingIteration ==
    is_running /\ next_frame_time' # next_frame_time /\ ~ BufferFull(buffer)

\* the last reconcile published its state to the running loop at this very
\* time: an iteration now is the first one after it
JustPublished ==
    /\ last_compare # None
    /\ last_compare.todo = "publish"
    /\ last_compare.at = now
    /\ app_state = current_instance

\* prev_state of the last reconcile had the environment STOPPED
WasStopped(id) ==
    \E i \in 1..Len(last_compare.prev.environments) :
        /\ last_compare.prev.environments[i].id = id
        /\ last_compare.prev.environments[i].play_state = "STOPPED"

\* C22: when reconciliation has changed an environment from STOPPED to
\* PLAYING while the loop is running, the first frame mixed for it afterwards
\* uses fresh runtimes for its layers: get_next_chunk finds each at
\* position_in_loop 0.
C22_FreshAfterRestart ==
    [][(MixingIteration /\ JustPublished)
       => \A e \in 1..Len(app_state.environments) :
            (/\ app_state.environments[e].play_state = "PLAYING"
             /\ WasStopped(app_state.environments[e].id))
            => \A l \in 1..Len(app_state.environments[e].layers) :
                  app_state.environments[e].layers[l].id \in frame'.called
                  => frame'.before[app_state.environments[e].layers[l].id] = 0]_vars

\* the ids of the layers of the snapshot
SnapshotLayers(app) ==
    UNION {{app.environments[e].layers[l].id :
                l \in 1..Len(app.environments[e].layers)} :
           e \in 1..Len(app.environments)}

\* C23: after a reconcile has published a snapshot that no longer contains a
\* layer, the layer's runtime is gone from the cache: once the loop has run an
\* iteration on the snapshot, every environment-layer key of the cache belongs
\* to a layer of the snapshot.
C23_NoOrphanRuntime ==
    [][MixingIteration
       => \A k \in DOMAIN cached_layers' :
            k[1] = "soundboard" \/ k[1] \in SnapshotLayers(app_state')]_vars

\* the layer of the posted state is in the same environment of the mixer's
\* snapshot and has a runtime in the cache
Survives(env, layer) ==
    /\ EnvById(app_state, env.id) # None
    /\ PrevLayer(EnvById(app_state, env.id), layer.id) # None
    /\ KeysOfLayer(cached_layers, layer.id) # {}

C25_PositionInLoop ==
    [][MixingIteration
       => \A e \in 1..Len(app_state'.environments) :
            \A l \in 1..Len(app_state'.environments[e].layers) :
               app_state'.environments[e].layers[l].id \in frame'.called
               => /\ frame'.after[app_state'.environments[e].layers[l].id] >= 0
                  /\ frame'.after[app_state'.environments[e].layers[l].id]
                        <= LoopLengthSamples(app_state'.environments[e].layers[l])]_vars

\* a frame was mixed for a layer whose runtime stood beyond the loop length
\* the snapshot now gives the layer
C25_Witness ==
    /\ app_state # None
    /\ \E e \in 1..Len(app_state.environments) :
          \E l \in 1..Len(app_state.environments[e].layers) :
             /\ app_state.environments[e].layers[l].id \in frame.called
             /\ frame.before[app_state.environments[e].layers[l].id]
                   > LoopLengthSamples(app_state.environments[e].layers[l])

----------------------------------------------------------------------------
(* Sound selection at the loop point: one playing environment, one layer
   with two sounds, its mode the layer's own or overridden by the active
   preset.  A mode that is not set is the empty string. *)

Modes == {"SINGLE", "SEQUENCE", "SHUFFLE"}

\* the layer: sounds s1 (file f1) and s2 (file f2), one loop per frame
SoundLayer(mode, chance) ==
    [id |-> "A", chance |-> chance, cooldown_cycles |-> 0, loop_length_ms |-> CHUNK_MS,
     weight |-> 1, mode |-> mode, selected_sound_index |-> 0,
     sounds |-> << [id |-> "s1", file_id |-> "f1", frequency |-> 1],
                   [id |-> "s2", file_id |-> "f2", frequency |-> 1] >>]

\* the preset layer that overrides the mode of layer A and nothing else
ModePresetLayer(mode) ==
    [id |-> "A", chance |-> NoValue, cooldown_cycles |-> NoValue, weight |-> NoValue,
     mode |-> mode, sounds |-> << >>]

SoundEnv(mode, chance, preset_mode) ==
    [id |-> "E1", max_weight |-> 1,
     layers |-> << SoundLayer(mode, chance) >>,
     presets |-> IF preset_mode = "" THEN << >>
                 ELSE << [id |-> "p1", max_weight |-> NoValue,
                          layers |-> << ModePresetLayer(preset_mode) >>] >>,
     active_preset_id |-> IF preset_mode = "" THEN "" ELSE "p1",
     play_state |-> "PLAYING",
     fade_start_time |-> NoValue,
     fade_end_time |-> NoValue]

\* the workspaces posted
SoundStates ==
    {[environments |-> << SoundEnv(m, c, pm) >>, crossfade_duration |-> 0] :
        m \in Modes, c \in Chances, pm \in {""} \cup Modes}

\* the draws of an iteration: one roll for the chance checks and one index
\* from random.choices, every sound having a positive frequency
SoundRolls ==
    {[l \in LayerIds |-> [chance |-> [m \in LayerIds |-> c],
                          pick |-> [m \in LayerIds |-> k]]] :
        c \in Rolls, k \in 0..1}

\* POST /workspace, once
SoundPost ==
    /\ ~ HasLayers(config_file)
    /\ \E new \in SoundStates : UpdateWorkspace(new)
    /\ UNCHANGED <<now, frame, lock, process_thread, audio_pc, ctl, next_frame_time,
                   buffer, effective, workspace, response, request>>

\* one iteration of the loop
SoundFrame ==
    /\ is_running
    /\ app_state # None
    /\ \A k \in DOMAIN cached_layers : cached_layers[k].cycle < MaxCycles
    /\ \E rollsOf \in SoundRolls :
          LeaveIteration(LoopIteration(app_state, cached_layers, env_states, now, rollsOf))
    /\ UNCHANGED <<now, current_instance, config_file, last_compare, lock,
                   process_thread, audio_pc, ctl, next_frame_time, buffer, effective,
                   workspace, response, request>>

SoundNext == SoundPost \/ SoundFrame

SoundSpec == SchedInit /\ [][SoundNext]_vars

\* the runtime under key k passes one loop boundary in this step
Boundary(k) ==
    /\ k \in DOMAIN cached_layers
    /\ k \in DOMAIN cached_layers'
    /\ cached_layers'[k].cycle = cached_layers[k].cycle + 1

\* C26: at a loop boundary the active sound index changes only if the layer
\* played during the cycle that ended: after a cycle in which it did not
\* play, the index is what it was.
C26_IndexKeptUnplayed ==
    [][\A k \in DOMAIN cached_layers :
          (Boundary(k) /\ ~ cached_layers[k].should_play)
          => cached_layers'[k].active_sound_index = cached_layers[k].active_sound_index]_vars

\* the layer of the snapshot the runtime under key k belongs to
LayerOfKey(k) == LayerById(app_state.environments[1], k[1])

\* C27: the samples get_next_chunk copies in a cycle come from the PCM buffer
\* of the sound at the active sound index: a runtime that has copied samples
\* in its cycle holds the file of that sound.
C27_ActiveSoundPlays ==
    \A k \in DOMAIN cached_layers :
        (cached_layers[k].should_play /\ cached_layers[k].audio_position > 0)
        => cached_layers[k].file_id
             = LayerOfKey(k).sounds[cached_layers[k].active_sound_index + 1].file_id

\* the mode the active preset gives the layer, or the layer's own
EffectiveMode(env, layer) ==
    IF GetActivePresetLayer(env, layer) # None /\ GetActivePresetLayer(env, layer).mode # ""
    THEN GetActivePresetLayer(env, layer).mode
    ELSE layer.mode

\* the indices the mode allows after a cycle that played with index active
Selectable(env, layer, mode, active) ==
    IF mode = "SINGLE" THEN {layer.selected_sound_index}
    ELSE IF mode = "SEQUENCE" THEN {(active + 1) % Len(layer.sounds)}
    ELSE {i \in 0..(Len(layer.sounds) - 1) :
             EffectiveFrequency(env, layer, layer.sounds[i + 1]) > 0}

\* C28: the sound selection at a loop boundary follows the effective mode of
\* the layer: after a cycle that played, the new index is the one the mode
\* of the active preset's override, or else the layer's own mode, selects.
C28_EffectiveModeSelects ==
    [][\A k \in DOMAIN cached_layers :
          (Boundary(k) /\ cached_layers[k].should_play)
          => cached_layers'[k].active_sound_index
               \in Selectable(app_state.environments[1], LayerOfKey(k),
                              EffectiveMode(app_state.environments[1], LayerOfKey(k)),
                              cached_layers[k].active_sound_index)]_vars

----------------------------------------------------------------------------
\* C29: the play decision of a layer changes only at the layer's own loop
\* boundary: over an iteration of the loop in which the runtime of a layer
\* passes no loop boundary of its own, its play decision stays what it was,
\* whatever the other layer of the environment does.
C29_DecisionPerCycle ==
    [][\A k \in (DOMAIN cached_layers) \cap (DOMAIN cached_layers') :
          cached_layers'[k].cycle = cached_layers[k].cycle
          => cached_layers'[k].should_play = cached_layers[k].should_play]_vars

----------------------------------------------------------------------------
(* Layer.should_play: audio.py.  The layer is layer A of a loaded workspace,
   with or without an override in the active preset; its cooldown_cycles is
   an integer or not set (from_dict reads it with data.get). *)

PlayChances == {0, RollDen \div 2}

\* what the active preset overrides of layer A: nothing, or all three
PlayOverrides ==
    {[chance |-> NoValue, cooldown_cycles |-> NoValue, weight |-> NoValue],
     [chance |-> RollDen \div 2, cooldown_cycles |-> 1, weight |-> 2]}

PlayEnv(chance, cooldown, weight, o) ==
    [id |-> "E1", max_weight |-> 2,
     layers |-> << [id |-> "A", chance |-> chance, cooldown_cycles |-> cooldown,
                    loop_length_ms |-> CHUNK_MS, weight |-> weight, mode |-> "SINGLE",
                    selected_sound_index |-> 0,
                    sounds |-> << [id |-> "s1", file_id |-> "f1"] >>] >>,
     presets |-> << [id |-> "p1", max_weight |-> NoValue,
                     layers |-> << [id |-> "A", chance |-> o.chance,
                                    cooldown_cycles |-> o.cooldown_cycles,
                                    weight |-> o.weight, mode |-> "",
                                    sounds |-> << >>] >>] >>,
     active_preset_id |-> "p1",
     play_state |-> "STOPPED",
     fade_start_time |-> NoValue,
     fade_end_time |-> NoValue]

PlayInputs ==
    {[environments |-> << PlayEnv(c, cd, w, o) >>, crossfade_duration |-> 0] :
        c \in PlayChances, cd \in {NoValue} \cup 0..MaxCooldown,
        w \in 1..2, o \in PlayOverrides}

Returned(value) == [raised |-> FALSE, value |-> value]
Raised == [raised |-> TRUE, value |-> FALSE]

\* Layer.should_play; `0 < passed <= cooldown` compares with None, and
\* raises TypeError, when passed is positive and no cooldown is set
LayerShouldPlay(env, layer, rolled_chance, passed_cooldown_cycles, weight_left) ==
    IF rolled_chance > EffectiveChance(env, layer) THEN Returned(FALSE)
    ELSE IF 0 < passed_cooldown_cycles /\ EffectiveCooldownCycles(env, layer) = NoValue
    THEN Raised
    ELSE IF 0 < passed_cooldown_cycles
            /\ passed_cooldown_cycles <= EffectiveCooldownCycles(env, layer)
    THEN Returned(FALSE)
    ELSE IF weight_left < EffectiveWeight(env, layer) THEN Returned(FALSE)
    ELSE Returned(TRUE)

\* a workspace has been loaded, the mixer not started
PlayInit ==
    /\ MixerInit
    /\ now = 0
    /\ current_instance \in PlayInputs
    /\ config_file = DefaultConfig
    /\ last_compare = None
    /\ audio_pc = NoThreads
    /\ ctl = NoThreads
    /\ next_frame_time = 0
    /\ buffer = 0
    /\ effective = None
    /\ workspace = LoadWorkspace(config_file)
    /\ response = None
    /\ request = None

\* layer.should_play(rolled_chance, passed_cooldown_cycles, weight_left)
PlayCall ==
    /\ \E rolled_chance \in {0, RollDen \div 2, RollDen - 1},
          passed_cooldown_cycles \in 0..(MaxCooldown + 1),
          weight_left \in 0..2 :
          effective' = [rolled_chance |-> rolled_chance,
                        passed_cooldown_cycles |-> passed_cooldown_cycles,
                        weight_left |-> weight_left,
                        result |-> LayerShouldPlay(current_instance.environments[1],
                                                   current_instance.environments[1].layers[1],
                                                   rolled_chance, passed_cooldown_cycles,
                                                   weight_left)]
    /\ UNCHANGED <<app_state, cached_layers, env_states, is_running, now,
                   current_instance, config_file, last_compare, frame, lock,
                   process_thread, audio_pc, ctl, next_frame_time, buffer,
                   workspace, response, request>>

PlaySpec == PlayInit /\ [][PlayCall]_vars

\* the three conditions of the claim, a cooldown that is not set being none
PlayConditions(env, layer, call) ==
    /\ call.rolled_chance <= EffectiveChance(env, layer)
    /\ \/ call.passed_cooldown_cycles = 0
       \/ EffectiveCooldownCycles(env, layer) = NoValue
       \/ call.passed_cooldown_cycles > EffectiveCooldownCycles(env, layer)
    /\ call.weight_left >= EffectiveWeight(env, layer)

\* C30: Layer.should_play returns true exactly when the rolled chance is at
\* most the effective chance, the passed cooldown cycles are 0 or more than
\* the effective cooldown_cycles, and the weight left is at least the
\* effective weight.
C30_ShouldPlayExactly ==
    effective # None
    => ((~ effective.result.raised /\ effective.result.value)
        <=> PlayConditions(current_instance.environments[1],
                           current_instance.environments[1].layers[1], effective))

\* for the layers whose effective cooldown_cycles is set, should_play returns,
\* and returns true exactly under the three conditions
ShouldPlayWhenSet ==
    (effective # None
     /\ EffectiveCooldownCycles(current_instance.environments[1],
                                current_instance.environments[1].layers[1]) # NoValue)
    => /\ ~ effective.result.raised
       /\ effective.result.value
            <=> PlayConditions(current_instance.environments[1],
                               current_instance.environments[1].layers[1], effective)

----------------------------------------------------------------------------
(* Claims about the mixer lock, checked under ThreadSpec and StopSpec *)

\* request thread c takes a step: of compare_workspaces or the soundboard
\* route (reading _app_state, _cached_layers and _is_running), of
\* start_processing, of the publication of the snapshot or of
\* play_soundboard_sound
ControlStep(c) == ctl'[c] # ctl[c]

\* C31: every read or write of the snapshot, the runtime cache, the running
\* flag and the thread handle made by control-plane code happens while the
\* caller holds the mixer lock: no request thread touches them while another
\* thread is holding the lock.
C31_ControlUnderLock ==
    [][\A c \in CtlThreads : ControlStep(c) => lock \in {"free", c}]_vars

\* the caller c of start_processing or stop_processing is at the join,
\* holding the lock, and the thread it joins is alive
Joining(c) ==
    /\ ctl[c].pc \in {"join", "stopjoin"}
    /\ lock = c
    /\ process_thread # 0
    /\ audio_pc[process_thread] # "done"

\* C32: while start_processing or stop_processing waits in join, the audio
\* thread is never waiting for the mixer lock the joining caller holds.
C32_JoinedThreadNotBlocked ==
    \A c \in CtlThreads : Joining(c) => audio_pc[process_thread] # "wait"

----------------------------------------------------------------------------
(* The fade window of one environment: start_fade and update_fade_state
   called on it while the clock advances in steps of half a frame period.
   effective holds the last call: the method, the time, and the window the
   environment had before it. *)

WindowTickMs == CHUNK_MS \div 2

WindowEndMs == MaxFrames * CHUNK_MS

\* the workspace: one environment, crossfade_duration up to a frame period
WindowStates ==
    {[environments |-> << FadeEnv("E1", p) >>, crossfade_duration |-> k * WindowTickMs] :
        p \in PlayStates, k \in 0..2}

WindowInit ==
    /\ MixerInit
    /\ now = 0
    /\ current_instance \in WindowStates
    /\ config_file = DefaultConfig
    /\ last_compare = None
    /\ audio_pc = NoThreads
    /\ ctl = NoThreads
    /\ next_frame_time = 0
    /\ buffer = 0
    /\ effective = None
    /\ workspace = LoadWorkspace(config_file)
    /\ response = None
    /\ request = None

\* the call of a method of the environment at time t, leaving it as `after`
WindowCalled(method, env, after, t) ==
    /\ current_instance' = [current_instance EXCEPT !.environments[1] = after]
    /\ effective' = [method |-> method, at |-> t,
                     fade_start_time |-> env.fade_start_time,
                     fade_end_time |-> env.fade_end_time]

\* env.start_fade()
WindowStart ==
    /\ WindowCalled("start_fade", current_instance.environments[1],
                    StartFade(current_instance.environments[1],
                              current_instance.crossfade_duration, now),
                    now)
    /\ UNCHANGED <<app_state, cached_layers, env_states, is_running, now,
                   config_file, last_compare, frame, lock, process_thread, audio_pc,
                   ctl, next_frame_time, buffer, workspace, response, request>>

\* env.update_fade_state()
WindowUpdate ==
    /\ WindowCalled("update_fade_state", current_instance.environments[1],
                    UpdateFadeState(current_instance.environments[1], now),
                    now)
    /\ UNCHANGED <<app_state, cached_layers, env_states, is_running, now,
                   config_file, last_compare, frame, lock, process_thread, audio_pc,
                   ctl, next_frame_time, buffer, workspace, response, request>>

\* time.time() advances
WindowTick ==
    /\ now < WindowEndMs
    /\ now' = now + WindowTickMs
    /\ UNCHANGED <<app_state, cached_layers, env_states, is_running, current_instance,
                   config_file, last_compare, frame, lock, process_thread, audio_pc,
                   ctl, next_frame_time, buffer, effective, workspace, response,
                   request>>

WindowNext == WindowStart \/ WindowUpdate \/ WindowTick

WindowSpec == WindowInit /\ [][WindowNext]_vars

\* the last call was update_fade_state on a window of start_fade that had run
\* to completion: it had a length and its end was reached
UpdatedWhenComplete ==
    /\ effective # None
    /\ effective.method = "update_fade_state"
    /\ effective.fade_start_time # NoValue
    /\ effective.fade_end_time > effective.fade_start_time
    /\ effective.at >= effective.fade_end_time

\* C33: after a fade window created by start_fade has run to completion, a
\* call of update_fade_state clears the window: fade_start and fade_end are
\* absent.
C33_CompleteWindowCleared ==
    UpdatedWhenComplete
    => /\ current_instance.environments[1].fade_start_time = NoValue
       /\ current_instance.environments[1].fade_end_time = NoValue

----------------------------------------------------------------------------
(* Crossfades on a finer clock: two environments without layers, the clock
   advancing by a quarter of DEFAULT_CROSSFADE_MS, so that a crossfade is seen
   at its start, at its middle, at its end and after *)

CrossTickMs == TickMs \div 2

\* time.time() advances
CrossTick ==
    /\ now < (MaxTicks + 1) * TickMs - CrossTickMs
    /\ now' = now + CrossTickMs
    /\ UNCHANGED <<app_state, cached_layers, env_states, is_running, current_instance,
                   config_file, last_compare, frame, lock, process_thread, audio_pc, ctl,
                   next_frame_time, buffer, effective, workspace, response, request>>

\* the workspaces posted
CrossStates ==
    {[environments |-> << FadeEnv("E1", p1), FadeEnv("E2", p2) >>,
      crossfade_duration |-> k * TickMs] :
        p1 \in PlayStates, p2 \in PlayStates, k \in 0..MaxCrossfadeTicks}

\* POST /workspace
CrossPost ==
    /\ \E new \in CrossStates : UpdateWorkspace(new)
    /\ UNCHANGED <<now, frame, lock, process_thread, audio_pc, ctl, next_frame_time,
                   buffer, effective, workspace, response, request>>

CrossNext == CrossPost \/ FadeFrame \/ CrossTick

CrossSpec == SchedInit /\ [][CrossNext]_vars

\* the last reconcile started a crossfade with a duration
Crossfading ==
    /\ last_compare # None
    /\ IsCrossfade(last_compare.prev, current_instance)
    /\ current_instance.crossfade_duration > 0

\* the fade progress of a crossfade of duration d that started elapsed ago,
\* as a fraction: of the starting environment, and of the stopping one
CrossProgress(play_state, elapsed, d) ==
    IF elapsed < d
    THEN IF play_state = "PLAYING" THEN <<elapsed, d>> ELSE <<d - elapsed, d>>
    ELSE IF play_state = "PLAYING" THEN <<1, 1>> ELSE <<0, 1>>

\* C34: during a crossfade of duration D started at t0, at every time t with
\* t0 <= t < t0 + D the fade progress of the starting environment is
\* (t - t0)/D and that of the stopping environment is 1 - (t - t0)/D (they sum
\* to 1, and both are 1/2 at D/2); from t0 + D on they are 1 and 0.
C34_CrossfadeProgress ==
    Crossfading
    => \A i \in Transitions(last_compare.prev, current_instance) :
          FadeProgress(NewEnvs[i], now)
            = CrossProgress(NewEnvs[i].play_state, now - last_compare.at,
                            current_instance.crossfade_duration)

\* a crossfade is at its middle: both environments are at one half
C34_Witness ==
    /\ Crossfading
    /\ 2 * (now - last_compare.at) = current_instance.crossfade_duration
    /\ \A i \in Transitions(last_compare.prev, current_instance) :
          /\ IsFading(NewEnvs[i], now)
          /\ 2 * FadeProgress(NewEnvs[i], now)[1] = FadeProgress(NewEnvs[i], now)[2]

----------------------------------------------------------------------------
(* Pacing: the lifecycle model on a clock of half frame periods.  effective
   holds what is seen of the loop since start_processing started its thread:
   when it started, how many iterations mixed, and when the last one did. *)

PaceTickMs == CHUNK_MS \div 2

\* the loop as start_processing leaves it at time t
LoopStarted(t) == [started |-> t, mixed |-> 0, last |-> t]

\* POST /workspace
PacePost ==
    /\ \E new \in LifeStates : UpdateWorkspace(new)
    /\ ThreadStarted
    /\ effective' = IF is_running' /\ ~ is_running THEN LoopStarted(now) ELSE effective
    /\ UNCHANGED <<now, frame, lock, process_thread, audio_pc, ctl, buffer,
                   workspace, response, request>>

\* one iteration of the loop, the transport's buffer not full
PaceFrame ==
    /\ AtIteration
    /\ ~ BufferFull(buffer)
    /\ \E rollsOf \in LifeRolls :
          LeaveIteration(LoopIteration(app_state, cached_layers, env_states, now, rollsOf))
    /\ buffer' = Queued(buffer, frame')
    /\ next_frame_time' = CaughtUp(next_frame_time, now) + CHUNK_MS
    /\ effective' = [effective EXCEPT !.mixed = @ + 1, !.last = now]
    /\ UNCHANGED <<now, current_instance, config_file, last_compare, lock,
                   process_thread, audio_pc, ctl, workspace, response, request>>

\* time passes by half a frame period
PaceTick ==
    /\ now < MaxFrames * CHUNK_MS
    /\ now' = now + PaceTickMs
    /\ UNCHANGED <<app_state, cached_layers, env_states, is_running, current_instance,
                   config_file, last_compare, frame, lock, process_thread, audio_pc,
                   ctl, next_frame_time, buffer, effective, workspace, response,
                   request>>

PaceNext == PacePost \/ PaceFrame \/ TransportRead \/ PaceTick

PaceSpec == SchedInit /\ [][PaceNext]_vars

\* C35: the loop skips the frame slots it missed instead of mixing them: the
\* number of frames mixed up to any time never exceeds the number of whole
\* frame periods elapsed since the loop started plus one, and once a frame is
\* mixed the next slot lies after the time it was mixed at (no catch-up
\* burst).
C35_NoCatchUpBurst ==
    effective # None
    => /\ effective.mixed <= ((now - effective.started) \div CHUNK_MS) + 1
       /\ effective.mixed > 0 => next_frame_time > effective.last

\* the loop has mixed a frame after it was behind by more than one frame
\* period, and the slot it waits for is the one after the clock
C35_Witness ==
    /\ effective # None
    /\ effective.mixed = 2
    /\ effective.last >= effective.started + 3 * CHUNK_MS - PaceTickMs
    /\ next_frame_time > now
    /\ frame.submitted

----------------------------------------------------------------------------
(* The transport on its own: AudioManager.queue_audio called by the mixer
   loop (one frame, when get_buffer_size is below the target) and by the test
   command (a whole clip), the voice client's player reading and finishing.
   buffer is the length of PCMStreamSource.buffer; effective is the stream of
   the guild; response is the last call of queue_audio. *)

\* the clip of the test command, in half frames
ClipHalfFrames == 23

ClipLength == ClipHalfFrames * (FRAME_LENGTH \div 2)

\* no entry for the guild in AudioManager._audio_streams
NoStream == [exists |-> FALSE, playing |-> FALSE, done |-> FALSE, has_read |-> FALSE,
             finishing |-> FALSE]

\* the entry queue_audio creates, voice_client.play called on it
NewStream == [NoStream EXCEPT !.exists = TRUE, !.playing = TRUE]

TransportInit ==
    /\ MixerInit
    /\ now = 0
    /\ current_instance = None
    /\ config_file = DefaultConfig
    /\ last_compare = None
    /\ audio_pc = NoThreads
    /\ ctl = NoThreads
    /\ next_frame_time = 0
    /\ buffer = 0
    /\ effective = NoStream
    /\ workspace = LoadWorkspace(config_file)
    /\ response = None
    /\ request = None

\* the buffer after queue_audio(guild_id, pcm_data), the voice client
\* connected: of a new source, or of the guild's
QueuedAudio(stream, buf, length) ==
    IF stream.exists THEN AddAudio(buf, length) ELSE AddAudio(0, length)

\* queue_audio returns True once the voice client is connected and playing
QueueAudioOf(length) ==
    /\ buffer' = QueuedAudio(effective, buffer, length)
    /\ effective' = IF effective.exists THEN [effective EXCEPT !.playing = TRUE]
                    ELSE NewStream
    /\ response' = [length |-> length,
                    before |-> IF effective.exists THEN buffer ELSE 0,
                    returned |-> TRUE]

\* the loop queues the frame it mixed
QueueFrame ==
    /\ ~ (effective.exists /\ BufferFull(buffer))
    /\ QueueAudioOf(FRAME_LENGTH)
    /\ UNCHANGED <<app_state, cached_layers, env_states, is_running, now,
                   current_instance, config_file, last_compare, frame, lock,
                   process_thread, audio_pc, ctl, next_frame_time, workspace, request>>

\* the test command queues its clip
QueueClip ==
    /\ QueueAudioOf(ClipLength)
    /\ UNCHANGED <<app_state, cached_layers, env_states, is_running, now,
                   current_instance, config_file, last_compare, frame, lock,
                   process_thread, audio_pc, ctl, next_frame_time, workspace, request>>

\* PCMStreamSource.read by the player: a frame, or None, which ends playback
SourceRead ==
    /\ effective.playing
    /\ buffer' = Read(buffer)
    /\ effective' =
          IF buffer > 0 THEN [effective EXCEPT !.has_read = @ \/ buffer >= FRAME_LENGTH]
          ELSE [effective EXCEPT !.done = @ \/ effective.has_read,
                                 !.playing = FALSE, !.finishing = TRUE]
    /\ UNCHANGED <<app_state, cached_layers, env_states, is_running, now,
                   current_instance, config_file, last_compare, frame, lock,
                   process_thread, audio_pc, ctl, next_frame_time, workspace, response,
                   request>>

\* AudioManager._on_playback_finished without error: cleanup_guild if the
\* source is done
OnPlaybackFinished ==
    /\ effective.finishing
    /\ IF effective.exists /\ effective.done
       THEN buffer' = 0 /\ effective' = NoStream
       ELSE buffer' = buffer /\ effective' = [effective EXCEPT !.finishing = FALSE]
    /\ UNCHANGED <<app_state, cached_layers, env_states, is_running, now,
                   current_instance, config_file, last_compare, frame, lock,
                   process_thread, audio_pc, ctl, next_frame_time, workspace, response,
                   request>>

TransportNext == QueueFrame \/ QueueClip \/ SourceRead \/ OnPlaybackFinished

TransportSpec == TransportInit /\ [][TransportNext]_vars

\* C36: whenever queue_audio returns True for a frame, the frame's bytes have
\* been appended to the buffer of the guild's source: the buffer has grown by
\* the length of the frame (an acknowledged frame is never discarded).
C36_AcknowledgedAppended ==
    [][(response' # response /\ response'.returned)
          => buffer' = response'.before + response'.length]_vars

\* C37: after any sequence of add_audio and read calls the buffer of the
\* source never holds more than MAX_BUFFER_SIZE bytes (10 frames).
C37_BufferBounded == buffer <= FRAME_LENGTH * MAX_BUFFER_FRAMES

----------------------------------------------------------------------------
(* The persisted config document under concurrent requests.  config_file is
   the document with its files array; each request thread serves one request,
   and a step is one stretch of a handler that runs under filelock() (or, for
   the unlocked read of update_workspace, one read of the file).  ctl[c] holds
   the request of thread c, the copy of the document it has read and the
   status it answered. *)

\* the ids SoundFile.from_upload gives the files the two threads upload
UploadId(c) == IF c = "c1" THEN "u1" ELSE "u2"

ConfigEnvs == {FadeEnv("E1", "STOPPED"), FadeEnv("E1", "PLAYING"), LifeEnv("STOPPED", 1)}

\* the workspaces a valid body posts
ConfigStates == {[environments |-> << e >>, crossfade_duration |-> 0] : e \in ConfigEnvs}

\* the bodies update_workspace rejects
RejectedBodies == {"invalid_json", "missing_environments", "missing_masterVolume",
                   "missing_soundboard"}

ConfigDocs ==
    {[environments |-> envs, crossfade_duration |-> DEFAULT_CROSSFADE_MS,
      files |-> << "f1", "f2" >>] : envs \in {<< >>, << LifeEnv("STOPPED", 1) >>}}

IdleRequest == [pc |-> "idle", op |-> "", arg |-> "", state |-> None, config |-> None,
                status |-> 0]

ConfigInit ==
    /\ MixerInit
    /\ now = 0
    /\ current_instance = None
    /\ config_file \in ConfigDocs
    /\ last_compare = None
    /\ audio_pc = NoThreads
    /\ ctl = [c \in CtlThreads |-> IdleRequest]
    /\ next_frame_time = 0
    /\ buffer = 0
    /\ effective = None
    /\ workspace = None
    /\ response = None
    /\ request = None

\* count_file_usage(file_id, config), layers only: the model has no soundboards
LayerUsage(file_id, layer) ==
    Cardinality({k \in 1..Len(layer.sounds) : layer.sounds[k].file_id = file_id})

RECURSIVE SumLayerUsage(_, _, _)
SumLayerUsage(file_id, layers, n) ==
    IF n = 0 THEN 0
    ELSE SumLayerUsage(file_id, layers, n - 1) + LayerUsage(file_id, layers[n])

RECURSIVE SumEnvUsage(_, _, _)
SumEnvUsage(file_id, envs, n) ==
    IF n = 0 THEN 0
    ELSE SumEnvUsage(file_id, envs, n - 1)
         + SumLayerUsage(file_id, envs[n].layers, Len(envs[n].layers))

CountFileUsage(file_id, config) ==
    SumEnvUsage(file_id, config.environments, Len(config.environments))

InFiles(file_id, config) == \E k \in 1..Len(config.files) : config.files[k] = file_id

\* remaining_files of delete_file
RemainingFiles(file_id, config) == SelectSeq(config.files, LAMBDA f : f # file_id)

\* save_config(config) on the document current, keys being the keys of config:
\* {**current_config, **config}
SaveConfig(current, config, keys) ==
    [environments |-> IF "environments" \in keys THEN config.environments
                      ELSE current.environments,
     crossfade_duration |-> IF "effects" \in keys THEN config.crossfade_duration
                            ELSE current.crossfade_duration,
     files |-> IF "files" \in keys THEN config.files ELSE current.files]

ConfigKeys == {"files", "environments", "masterVolume", "soundboard", "effects"}

\* save_workspace(app_state) on the document current: the new workspace with
\* the files of the document
SaveWorkspace(current, new) ==
    [environments |-> Saved(new).environments,
     crossfade_duration |-> new.crossfade_duration,
     files |-> current.files]

\* ensure_workspace_dir on an existing document
EnsureWorkspaceDir(config) == AllStopped(config)

MixerLeft ==
    UNCHANGED <<app_state, cached_layers, env_states, is_running, now, current_instance,
                last_compare, frame, lock, process_thread, audio_pc, next_frame_time,
                buffer, effective, workspace, response, request>>

\* upload_file up to the return of load_config
UploadLoad(c) ==
    /\ ctl[c].pc = "idle"
    /\ ctl' = [ctl EXCEPT ![c] = [IdleRequest EXCEPT !.pc = "save", !.op = "upload",
                                                    !.arg = UploadId(c),
                                                    !.config = config_file]]
    /\ UNCHANGED config_file
    /\ MixerLeft

\* upload_file from save_config({"files": ...}) on
UploadSave(c) ==
    /\ ctl[c].pc = "save"
    /\ ctl[c].op = "upload"
    /\ config_file' = SaveConfig(config_file,
                                 [ctl[c].config EXCEPT !.files = Append(@, ctl[c].arg)],
                                 {"files"})
    /\ ctl' = [ctl EXCEPT ![c].pc = "done", ![c].status = 200]
    /\ MixerLeft

\* delete_file up to save_config
DeleteLoad(c) ==
    /\ ctl[c].pc = "idle"
    /\ \E file_id \in Files :
          ctl' = [ctl EXCEPT ![c] =
                    IF CountFileUsage(file_id, config_file) > 0
                    THEN [IdleRequest EXCEPT !.pc = "done", !.op = "delete",
                                             !.arg = file_id, !.status = 400]
                    ELSE IF ~ InFiles(file_id, config_file)
                    THEN [IdleRequest EXCEPT !.pc = "done", !.op = "delete",
                                             !.arg = file_id, !.status = 404]
                    ELSE [IdleRequest EXCEPT !.pc = "save", !.op = "delete",
                                             !.arg = file_id, !.config = config_file]]
    /\ UNCHANGED config_file
    /\ MixerLeft

\* delete_file from save_config(config) on
DeleteSave(c) ==
    /\ ctl[c].pc = "save"
    /\ ctl[c].op = "delete"
    /\ config_file' = SaveConfig(config_file,
                                 [ctl[c].config EXCEPT
                                    !.files = RemainingFiles(ctl[c].arg, ctl[c].config)],
                                 ConfigKeys)
    /\ ctl' = [ctl EXCEPT ![c].pc = "done", ![c].status = 200]
    /\ MixerLeft

\* update_workspace: ensure_workspace_dir, the body a workspace
PostEnsure(c) ==
    /\ ctl[c].pc = "idle"
    /\ \E new \in ConfigStates :
          ctl' = [ctl EXCEPT ![c] = [IdleRequest EXCEPT !.pc = "read", !.op = "post",
                                                       !.state = new]]
    /\ config_file' = EnsureWorkspaceDir(config_file)
    /\ MixerLeft

\* update_workspace: ensure_workspace_dir, the body one that is rejected
RejectedEnsure(c) ==
    /\ ctl[c].pc = "idle"
    /\ \E body \in RejectedBodies :
          ctl' = [ctl EXCEPT ![c] = [IdleRequest EXCEPT !.pc = "read", !.op = "rejected",
                                                       !.arg = body]]
    /\ config_file' = EnsureWorkspaceDir(config_file)
    /\ MixerLeft

\* update_workspace from json.loads to the validation, the body valid
PostRead(c) ==
    /\ ctl[c].pc = "read"
    /\ ctl[c].op = "post"
    /\ ctl' = [ctl EXCEPT ![c].pc = "save", ![c].config = config_file]
    /\ UNCHANGED config_file
    /\ MixerLeft

\* update_workspace from json.loads to its return, the body rejected
PostRejected(c) ==
    /\ ctl[c].pc = "read"
    /\ ctl[c].op = "rejected"
    /\ ctl' = [ctl EXCEPT ![c].pc = "done", ![c].status = 400]
    /\ UNCHANGED config_file
    /\ MixerLeft

\* update_workspace from save_workspace on
PostSave(c) ==
    /\ ctl[c].pc = "save"
    /\ ctl[c].op = "post"
    /\ config_file' = SaveWorkspace(config_file, ctl[c].state)
    /\ Reconciled(CurrentState(app_state, ctl[c].config),
                  CompareWorkspaces(CurrentState(app_state, ctl[c].config), ctl[c].state,
                                    cached_layers, is_running, now),
                  now)
    /\ ThreadStarted
    /\ ctl' = [ctl EXCEPT ![c].pc = "done", ![c].status = 200]
    /\ UNCHANGED <<now, frame, lock, process_thread, audio_pc, buffer, effective,
                   workspace, response, request>>

ConfigNext ==
    \E c \in CtlThreads :
        \/ UploadLoad(c)
        \/ UploadSave(c)
        \/ DeleteLoad(c)
        \/ DeleteSave(c)
        \/ PostEnsure(c)
        \/ RejectedEnsure(c)
        \/ PostRead(c)
        \/ PostRejected(c)
        \/ PostSave(c)

ConfigSpec == ConfigInit /\ [][ConfigNext]_vars

Completed(c) == ctl[c].pc = "done" /\ ctl[c].status = 200

\* the document shows what the completed request of thread c did
Reflected(c) ==
    IF ctl[c].op = "upload" THEN InFiles(ctl[c].arg, config_file)
    ELSE IF ctl[c].op = "delete" THEN ~ InFiles(ctl[c].arg, config_file)
    ELSE \/ config_file.environments = Saved(ctl[c].state).environments
         \/ \E d \in CtlThreads \ {c} :
               /\ ctl[d].op = "post"
               /\ config_file.environments = Saved(ctl[d].state).environments

\* C38: updates of the persisted config are atomic with respect to each
\* other: when two requests among upload_file, delete_file and POST /workspace
\* have both completed, whatever their interleaving, the persisted config
\* reflects both (an uploaded file is in the files array, a deleted one is not,
\* the posted environments are the persisted ones).
C38_NoLostUpdate ==
    (\A c \in CtlThreads : Completed(c)) => \A c \in CtlThreads : Reflected(c)

\* C39: a POST /workspace that is rejected (invalid JSON or a missing required
\* top-level field) answers with a client error, and no step of it changes
\* the persisted config file, the mixer's snapshot or what the reconciler
\* last saw.
C39_RejectedChangesNothing ==
    [][\A c \in CtlThreads :
          (ctl[c].op = "rejected" \/ ctl'[c].op = "rejected") /\ ctl'[c] # ctl[c]
          => /\ config_file' = config_file
             /\ app_state' = app_state
             /\ last_compare' = last_compare
             /\ ctl'[c].pc = "done" => ctl'[c].status = 400]_vars

----------------------------------------------------------------------------
(* Sound indexes across snapshot swaps: one playing environment whose layer A
   is posted with one or two sounds and either selected_sound_index, or not at
   all, while the loop runs.  Requests and loop iterations run to their ends. *)

\* layer A in SINGLE mode with its first count sounds
IndexLayer(count, selected) ==
    [SoundLayer("SINGLE", RollDen) EXCEPT
        !.sounds = SubSeq(@, 1, count),
        !.selected_sound_index = selected]

IndexEnv(layers) == [SoundEnv("SINGLE", RollDen, "") EXCEPT !.layers = layers]

\* the workspaces posted
IndexStates ==
    {[environments |-> << IndexEnv(layers) >>, crossfade_duration |-> 0] :
        layers \in {<< >>} \cup {<< IndexLayer(n, i) >> : n \in 1..2, i \in 0..1}}

\* POST /workspace
IndexPost ==
    /\ \E new \in IndexStates : UpdateWorkspace(new)
    /\ ThreadStarted
    /\ UNCHANGED <<now, frame, lock, process_thread, audio_pc, ctl, buffer, effective,
                   workspace, response, request>>

IndexNext == IndexPost \/ SoundFrame

IndexSpec == SchedInit /\ [][IndexNext]_vars

\* the layers of the snapshot whose sounds the loop point of the runtime under
\* key k indexes: those with sounds in the environment of the runtime's layer
IndexedAtLoopPoint(app, k) ==
    UNION {{app.environments[e].layers[l] : l \in {m \in 1..Len(app.environments[e].layers) :
                                                     Len(app.environments[e].layers[m].sounds) > 0}} :
           e \in {f \in 1..Len(app.environments) : LayerHits(app.environments[f], k[1]) # {}}}

\* C40: after any sequence of loop boundaries and snapshot swaps, every index
\* used to pick a layer's sound is within the layer's sounds: when a runtime
\* passes a loop boundary, the selected_sound_index of every layer with sounds
\* that the loop point indexes, and the runtime's own active index afterwards,
\* are at least 0 and below len(sounds).
C40_IndexInRange ==
    [][\A k \in DOMAIN cached_layers :
          Boundary(k)
          => /\ \A layer \in IndexedAtLoopPoint(app_state', k) :
                   /\ 0 <= layer.selected_sound_index
                   /\ layer.selected_sound_index < Len(layer.sounds)
             /\ \A layer \in IndexedAtLoopPoint(app_state', k) :
                   layer.id = k[1]
                   => /\ 0 <= cached_layers'[k].active_sound_index
                      /\ cached_layers'[k].active_sound_index < Len(layer.sounds)]_vars

====
